---- MODULE Spec2Model ----
(***************************************************************************)
(* The adaptive rate control of the Motion-JPEG encoder                    *)
(* (server/mjpeg-encoder.c): quality evaluation, bit-rate accounting, FPS  *)
(* pacing, the server-drop monitor and the client-report handler.          *)
(*                                                                         *)
(* Conventions of the model                                                *)
(*  - The monotonic clock is read in milliseconds (the code reads          *)
(*    nanoseconds; every clock reading of the model is a whole number of   *)
(*    milliseconds, so (a - b) / NSEC_PER_MILLISEC is a - b).              *)
(*  - The double adjusted_fps is kept as an exact fraction <<num, den>>    *)
(*    in lowest terms; comparisons of doubles are made on the fractions.   *)
(*  - One operator per C function, taking the encoder e and returning the  *)
(*    encoder after the call.  e.rate_control is MJpegEncoderRateControl;  *)
(*    e.calls and e.delays record, for the host-facing call in progress,   *)
(*    the Decrease/Increase-bit-rate calls made and the values handed to   *)
(*    cbs.update_client_playback_delay.                                    *)
(***************************************************************************)
EXTENDS Integers, Sequences, FiniteSets, TLC

VARIABLES
    rate_control,       \* encoder->rate_control
    starting_bit_rate,  \* encoder->starting_bit_rate
    now,                \* the last reading of spice_get_monotonic_time_ns(), in ms
    src_fps,            \* what cbs.get_source_fps answers
    roundtrip_ms,       \* what cbs.get_roundtrip_ms answers
    op,                 \* the host-facing call that produced this state
    ret,                \* what that call returned (encode_frame), "" otherwise
    calls,              \* Decrease/Increase calls, handler and monitor runs of that call
    delays,             \* values passed to update_client_playback_delay during it
    gate,               \* the admission gate's operands in that call
    delay_call,         \* the last get_min_required_playback_delay call: arguments, result
    walk,               \* the quality ids the evaluation in progress has been at
    entered,            \* quality_id and fps when the last evaluation began
    created,            \* the clock reading at construction
    nops                \* host-facing calls made so far

vars == <<rate_control, starting_bit_rate, now, src_fps, roundtrip_ms, op, ret,
          calls, delays, gate, delay_call, walk, entered, created, nops>>

----------------------------------------------------------------------------
(* Program constants *)

MJPEG_MAX_FPS == 25
MJPEG_MIN_FPS == 1
MJPEG_QUALITY_SAMPLE_NUM == 7
MJPEG_IMPROVE_QUALITY_FPS_STRICT_TH == 10
MJPEG_IMPROVE_QUALITY_FPS_PERMISSIVE_TH == 5
MJPEG_AVERAGE_SIZE_WINDOW == 3
MJPEG_BIT_RATE_EVAL_MIN_NUM_FRAMES == 3
MJPEG_SERVER_STATUS_EVAL_FPS_INTERVAL == 1
MJPEG_CLIENT_POSITIVE_REPORT_TIMEOUT == 2000
MJPEG_CLIENT_POSITIVE_REPORT_STRICT_TIMEOUT == 3000
MJPEG_ADJUST_FPS_TIMEOUT == 500
MSEC_PER_SEC == 1000
MJPEG_MAX_CLIENT_PLAYBACK_DELAY == MSEC_PER_SEC * 5
\* NSEC_PER_SEC * 3, in the model's milliseconds
MJPEG_WARMUP_TIME == MSEC_PER_SEC * 3
MJPEG_VIDEO_DELAY_TH == -15

MJPEG_QUALITY_EVAL_TYPE_SET == 0
MJPEG_QUALITY_EVAL_TYPE_UPGRADE == 1
MJPEG_QUALITY_EVAL_TYPE_DOWNGRADE == 2
MJPEG_QUALITY_EVAL_REASON_SIZE_CHANGE == 0
MJPEG_QUALITY_EVAL_REASON_RATE_CHANGE == 1

VIDEO_ENCODER_FRAME_UNSUPPORTED == "UNSUPPORTED"
VIDEO_ENCODER_FRAME_DROP == "DROP"
VIDEO_ENCODER_FRAME_ENCODE_DONE == "ENCODE_DONE"

QualityIds == 0 .. (MJPEG_QUALITY_SAMPLE_NUM - 1)

----------------------------------------------------------------------------
(* Arithmetic helpers *)

MIN(a, b) == IF a < b THEN a ELSE b
MAX(a, b) == IF a > b THEN a ELSE b

RECURSIVE GCD(_, _)
GCD(a, b) == IF b = 0 THEN a ELSE GCD(b, a % b)

\* the fraction n/d (d > 0) in lowest terms
Frac(n, d) == LET g == GCD(n, d) IN IF g = 0 THEN <<0, 1>> ELSE <<n \div g, d \div g>>

\* a * b for fractions, cancelling across before multiplying
FracMul(a, b) ==
    LET g1 == MAX(1, GCD(a[1], b[2]))
        g2 == MAX(1, GCD(b[1], a[2]))
    IN Frac((a[1] \div g1) * (b[1] \div g2), (a[2] \div g2) * (b[2] \div g1))

\* floor(a * b / c) for a, b >= 0 and c > 0, without forming a * b
MulDiv(a, b, c) == (a \div c) * b + ((a % c) * b) \div c

FracLess(a, b) == a[1] * b[2] < b[1] * a[2]
FracMin(a, b) == IF FracLess(a, b) THEN a ELSE b
FracMax(a, b) == IF FracLess(b, a) THEN a ELSE b

----------------------------------------------------------------------------
(* The zeroed structures (spice_new0, memset) *)

ZeroQualityEval ==
    [type |-> 0, reason |-> 0,
     encoded_size_by_quality |-> [q \in QualityIds |-> 0],
     min_quality_id |-> 0, min_quality_fps |-> 0,
     max_quality_id |-> 0, max_quality_fps |-> 0,
     max_sampled_fps |-> 0, max_sampled_fps_quality_id |-> 0]

ZeroBitRateInfo ==
    [change_start_time |-> 0, last_frame_time |-> 0, change_start_mm_time |-> 0,
     was_upgraded |-> FALSE, num_enc_frames |-> 0, sum_enc_size |-> 0]

ZeroClientState == [max_video_latency |-> 0, max_audio_latency |-> 0]

ZeroServerState == [num_frames_encoded |-> 0, num_frames_dropped |-> 0]

ZeroRateControl ==
    [during_quality_eval |-> FALSE,
     quality_eval_data |-> ZeroQualityEval,
     bit_rate_info |-> ZeroBitRateInfo,
     client_state |-> ZeroClientState,
     server_state |-> ZeroServerState,
     byte_rate |-> 0, quality_id |-> 0, fps |-> 0,
     adjusted_fps |-> <<0, 1>>,
     adjusted_fps_start_time |-> 0, adjusted_fps_num_frames |-> 0,
     base_enc_size |-> 0, last_enc_size |-> 0,
     sum_recent_enc_size |-> 0, num_recent_enc_frames |-> 0,
     warmup_start_time |-> 0]

\* the encoder at the start of a host-facing call: nothing recorded yet
Enter(rc, dc) == [rate_control |-> rc, calls |-> <<>>, delays |-> <<>>, delay_call |-> dc, traced |-> FALSE]

\* the same, with the runs of the report handlers recorded in e.calls as well
EnterTraced(rc, dc) == [Enter(rc, dc) EXCEPT !.traced = TRUE]

\* the record of one run of an internal procedure, kept when the call is traced:
\* the rate control it found and the rate control it left
Traced(fn, before, after) ==
    IF ~before.traced THEN after
    ELSE [after EXCEPT !.calls = Append(@, [fn |-> fn, pre |-> before.rate_control,
                                            post |-> after.rate_control])]

----------------------------------------------------------------------------
(* Host callbacks and small helpers *)

mjpeg_encoder_get_latency(rtt) == rtt \div 2

get_max_fps(frame_size, bytes_per_sec) ==
    IF frame_size # 0 THEN bytes_per_sec \div frame_size ELSE MJPEG_MAX_FPS

get_min_required_playback_delay(frame_enc_size, byte_rate, latency) ==
    IF frame_enc_size = 0 \/ byte_rate = 0
    THEN latency
    ELSE LET one_frame_time == (frame_enc_size * MSEC_PER_SEC) \div byte_rate
         IN MIN(one_frame_time * 2 + latency, MJPEG_MAX_CLIENT_PLAYBACK_DELAY)

\* a call of get_min_required_playback_delay made by the encoder, recorded
PlaybackDelay(e, frame_enc_size, byte_rate, latency) ==
    [e EXCEPT !.delay_call =
        [frame_enc_size |-> frame_enc_size, byte_rate |-> byte_rate,
         latency |-> latency,
         ret |-> get_min_required_playback_delay(frame_enc_size, byte_rate, latency)]]

\* cbs.update_client_playback_delay(opaque, delay)
update_client_playback_delay(e, delay) == [e EXCEPT !.delays = Append(@, delay)]

\* a variant of ClampedFps that trusts the caller's fps
UnclampedFps(fps) == fps

\* rate_control->fps = MIN(MJPEG_MAX_FPS, MAX(MJPEG_MIN_FPS, fps))
ClampedFps(fps) == MIN(MJPEG_MAX_FPS, MAX(MJPEG_MIN_FPS, fps))

mjpeg_encoder_reset_quality(e, quality_id, fps, frame_enc_size) ==
    LET rc == e.rate_control
        fps_ratio == IF rc.adjusted_fps[1] # 0
                     THEN Frac(rc.adjusted_fps[1], rc.adjusted_fps[2] * rc.fps)
                     ELSE <<3, 2>>
        new_fps == ClampedFps(fps)
    IN [e EXCEPT !.rate_control =
         [rc EXCEPT
            !.during_quality_eval = FALSE,
            !.last_enc_size = IF rc.quality_id # quality_id THEN 0 ELSE @,
            !.server_state =
                IF rc.quality_eval_data.reason = MJPEG_QUALITY_EVAL_REASON_RATE_CHANGE
                THEN ZeroServerState ELSE @,
            !.quality_id = quality_id,
            !.quality_eval_data =
                [ZeroQualityEval EXCEPT
                    !.max_quality_id = MJPEG_QUALITY_SAMPLE_NUM - 1,
                    !.max_quality_fps = MJPEG_MAX_FPS],
            !.fps = new_fps,
            !.adjusted_fps = FracMul(<<new_fps, 1>>, fps_ratio),
            !.adjusted_fps_start_time = 0,
            !.adjusted_fps_num_frames = 0,
            !.base_enc_size = frame_enc_size,
            !.sum_recent_enc_size = 0,
            !.num_recent_enc_frames = 0]]

\* a variant of QUALITY_WAS_EVALUATED that looks at the top quality's sample
QUALITY_WAS_EVALUATED_AT_TOP(e, quality) ==
    e.rate_control.quality_eval_data.encoded_size_by_quality[MJPEG_QUALITY_SAMPLE_NUM - 1] # 0

\* a variant of QUALITY_WAS_EVALUATED that tests the unsigned size for < 0
QUALITY_WAS_EVALUATED_BELOW_ZERO(e, quality) ==
    e.rate_control.quality_eval_data.encoded_size_by_quality[quality] < 0

QUALITY_WAS_EVALUATED(e, quality) ==
    e.rate_control.quality_eval_data.encoded_size_by_quality[quality] # 0

----------------------------------------------------------------------------
(* Quality evaluation *)

\* a variant of complete_sample that commits without Reset-Quality
complete_sample_without_reset(e, latency) ==
    LET rc == e.rate_control
        enc_size == rc.quality_eval_data.encoded_size_by_quality[rc.quality_id]
    IN update_client_playback_delay(
           [e EXCEPT !.rate_control.during_quality_eval = FALSE,
                     !.rate_control.fps = ClampedFps(get_max_fps(enc_size, rc.byte_rate)),
                     !.rate_control.base_enc_size = enc_size,
                     !.rate_control.sum_recent_enc_size = enc_size,
                     !.rate_control.num_recent_enc_frames = 1],
           get_min_required_playback_delay(enc_size, rc.byte_rate, latency))

\* a variant of complete_sample that commits at the quality of the best
\* sampled frame rate even when the walk ended at a better quality
complete_sample_at_best_fps(e, latency) ==
    LET rc == e.rate_control
        quality_eval == rc.quality_eval_data
        final_quality_id ==
            IF quality_eval.max_sampled_fps # 0
            THEN quality_eval.max_sampled_fps_quality_id
            ELSE rc.quality_id
        final_quality_enc_size == quality_eval.encoded_size_by_quality[final_quality_id]
        final_fps == get_max_fps(final_quality_enc_size, rc.byte_rate)
        e1 == mjpeg_encoder_reset_quality(e, final_quality_id, final_fps,
                                          final_quality_enc_size)
        e2 == [e1 EXCEPT !.rate_control.sum_recent_enc_size = final_quality_enc_size,
                         !.rate_control.num_recent_enc_frames = 1]
        e3 == PlaybackDelay(e2, final_quality_enc_size, rc.byte_rate, latency)
    IN update_client_playback_delay(e3, e3.delay_call.ret)

\* a variant of complete_sample that commits at the frame rate of the sample,
\* whatever min_quality_fps and max_quality_fps are
complete_sample_at_sampled_fps(e, latency) ==
    LET rc == e.rate_control
        quality_eval == rc.quality_eval_data
        final_quality_id ==
            IF quality_eval.max_sampled_fps # 0
            THEN MAX(rc.quality_id, quality_eval.max_sampled_fps_quality_id)
            ELSE rc.quality_id
        final_quality_enc_size == quality_eval.encoded_size_by_quality[final_quality_id]
        final_fps == get_max_fps(final_quality_enc_size, rc.byte_rate)
        e1 == mjpeg_encoder_reset_quality(e, final_quality_id, final_fps,
                                          final_quality_enc_size)
        e2 == [e1 EXCEPT !.rate_control.sum_recent_enc_size = final_quality_enc_size,
                         !.rate_control.num_recent_enc_frames = 1]
        e3 == PlaybackDelay(e2, final_quality_enc_size, rc.byte_rate, latency)
    IN Traced("complete_sample", e, update_client_playback_delay(e3, e3.delay_call.ret))

\* a variant of complete_sample that commits at the quality_id the walk
\* ended at, whatever quality gave the best sampled frame rate
complete_sample_at_quality_id(e, latency) ==
    LET rc == e.rate_control
        quality_eval == rc.quality_eval_data
        final_quality_id == rc.quality_id
        final_quality_enc_size == quality_eval.encoded_size_by_quality[final_quality_id]
        fps0 == get_max_fps(final_quality_enc_size, rc.byte_rate)
        fps1 == IF final_quality_id = quality_eval.min_quality_id
                THEN MAX(fps0, quality_eval.min_quality_fps) ELSE fps0
        final_fps == IF final_quality_id = quality_eval.max_quality_id
                     THEN MIN(fps1, quality_eval.max_quality_fps) ELSE fps1
        e1 == mjpeg_encoder_reset_quality(e, final_quality_id, final_fps,
                                          final_quality_enc_size)
        e2 == [e1 EXCEPT !.rate_control.sum_recent_enc_size = final_quality_enc_size,
                         !.rate_control.num_recent_enc_frames = 1]
        e3 == PlaybackDelay(e2, final_quality_enc_size, rc.byte_rate, latency)
    IN Traced("complete_sample", e, update_client_playback_delay(e3, e3.delay_call.ret))

\* complete_sample: commit the evaluation at the current quality_id
complete_sample(e, latency) ==
    LET rc == e.rate_control
        quality_eval == rc.quality_eval_data
        final_quality_id ==
            IF quality_eval.max_sampled_fps # 0
            THEN MAX(rc.quality_id, quality_eval.max_sampled_fps_quality_id)
            ELSE rc.quality_id
        final_quality_enc_size == quality_eval.encoded_size_by_quality[final_quality_id]
        fps0 == get_max_fps(final_quality_enc_size, rc.byte_rate)
        fps1 == IF final_quality_id = quality_eval.min_quality_id
                THEN MAX(fps0, quality_eval.min_quality_fps) ELSE fps0
        final_fps == IF final_quality_id = quality_eval.max_quality_id
                     THEN MIN(fps1, quality_eval.max_quality_fps) ELSE fps1
        e1 == mjpeg_encoder_reset_quality(e, final_quality_id, final_fps,
                                          final_quality_enc_size)
        e2 == [e1 EXCEPT !.rate_control.sum_recent_enc_size = final_quality_enc_size,
                         !.rate_control.num_recent_enc_frames = 1]
        e3 == PlaybackDelay(e2, final_quality_enc_size, rc.byte_rate, latency)
    IN Traced("complete_sample", e, update_client_playback_delay(e3, e3.delay_call.ret))

mjpeg_encoder_eval_quality(e, source_fps, latency) ==
    LET rc == e.rate_control
        q == rc.quality_id
        enc_size == rc.quality_eval_data.encoded_size_by_quality[q]
        fps == get_max_fps(enc_size, rc.byte_rate)
        better == \/ fps > rc.quality_eval_data.max_sampled_fps
                  \/ /\ (fps = rc.quality_eval_data.max_sampled_fps \/ fps >= source_fps)
                     /\ q > rc.quality_eval_data.max_sampled_fps_quality_id
        e1 == IF better
              THEN [e EXCEPT !.rate_control.quality_eval_data.max_sampled_fps = fps,
                             !.rate_control.quality_eval_data.max_sampled_fps_quality_id = q]
              ELSE e
        quality_eval == e1.rate_control.quality_eval_data
        \* where a branch leaves quality_id, and whether it jumps to complete_sample
        Step(k) == [quality_id |-> k, complete |-> FALSE]
        Complete(k) == [quality_id |-> k, complete |-> TRUE]
        branch ==
           IF /\ q > MJPEG_QUALITY_SAMPLE_NUM \div 2
              /\ fps < MJPEG_IMPROVE_QUALITY_FPS_STRICT_TH
              /\ fps < source_fps
           THEN IF QUALITY_WAS_EVALUATED(e1, q - 1) THEN Complete(q - 1) ELSE Step(q - 1)
           ELSE IF \/ /\ fps > MJPEG_IMPROVE_QUALITY_FPS_PERMISSIVE_TH
                      \* fps >= 0.66 * min_quality_fps
                      /\ 100 * fps >= 66 * quality_eval.min_quality_fps
                   \/ fps >= source_fps
           THEN IF \/ q + 1 = MJPEG_QUALITY_SAMPLE_NUM
                   \/ q >= quality_eval.max_quality_id
                   \/ QUALITY_WAS_EVALUATED(e1, q + 1)
                THEN Complete(q)
                ELSE IF /\ q = MJPEG_QUALITY_SAMPLE_NUM \div 2
                        /\ fps < MJPEG_IMPROVE_QUALITY_FPS_STRICT_TH
                        /\ fps < source_fps
                     THEN Complete(q)
                     ELSE Step(q + 1)
           ELSE IF q = 0 \/ q <= quality_eval.min_quality_id
                THEN Complete(q)
                ELSE IF QUALITY_WAS_EVALUATED(e1, q - 1) THEN Complete(q - 1)
                     ELSE Step(q - 1)
        stepped == [e1 EXCEPT !.rate_control.quality_id = branch.quality_id]
    IN IF enc_size = 0 THEN e
       ELSE IF branch.complete THEN complete_sample(stepped, latency)
       ELSE stepped

mjpeg_encoder_quality_eval_set_upgrade(e, reason, min_quality_id, min_quality_fps) ==
    [e EXCEPT !.rate_control.during_quality_eval = TRUE,
              !.rate_control.quality_eval_data.type = MJPEG_QUALITY_EVAL_TYPE_UPGRADE,
              !.rate_control.quality_eval_data.reason = reason,
              !.rate_control.quality_eval_data.min_quality_id = min_quality_id,
              !.rate_control.quality_eval_data.min_quality_fps = min_quality_fps]

\* a variant of mjpeg_encoder_quality_eval_set_downgrade that leaves the upper
\* clamp where Reset-Quality put it
mjpeg_encoder_quality_eval_set_downgrade_unclamped(e, reason, max_quality_id, max_quality_fps) ==
    [e EXCEPT !.rate_control.during_quality_eval = TRUE,
              !.rate_control.quality_eval_data.type = MJPEG_QUALITY_EVAL_TYPE_DOWNGRADE,
              !.rate_control.quality_eval_data.reason = reason]

mjpeg_encoder_quality_eval_set_downgrade(e, reason, max_quality_id, max_quality_fps) ==
    [e EXCEPT !.rate_control.during_quality_eval = TRUE,
              !.rate_control.quality_eval_data.type = MJPEG_QUALITY_EVAL_TYPE_DOWNGRADE,
              !.rate_control.quality_eval_data.reason = reason,
              !.rate_control.quality_eval_data.max_quality_id = max_quality_id,
              !.rate_control.quality_eval_data.max_quality_fps = max_quality_fps]

\* the record of one run of mjpeg_encoder_quality_eval_stop
Stopped(before, after) ==
    [after EXCEPT !.calls = Append(@, [fn |-> "quality_eval_stop",
                                       pre |-> before.rate_control,
                                       post |-> after.rate_control])]

\* a variant of mjpeg_encoder_quality_eval_stop that cancels every evaluation
\* the way it cancels a SET evaluation
mjpeg_encoder_quality_eval_stop_to_median(e) ==
    Stopped(e, IF ~e.rate_control.during_quality_eval THEN e
               ELSE mjpeg_encoder_reset_quality(e, MJPEG_QUALITY_SAMPLE_NUM \div 2,
                                                MJPEG_MAX_FPS \div 2, 0))

mjpeg_encoder_quality_eval_stop(e) ==
    LET rc == e.rate_control
        quality_eval == rc.quality_eval_data
    IN Stopped(e,
           IF ~rc.during_quality_eval THEN e
           ELSE IF quality_eval.type = MJPEG_QUALITY_EVAL_TYPE_UPGRADE
           THEN mjpeg_encoder_reset_quality(e, quality_eval.min_quality_id,
                                            quality_eval.min_quality_fps, 0)
           ELSE IF quality_eval.type = MJPEG_QUALITY_EVAL_TYPE_DOWNGRADE
           THEN mjpeg_encoder_reset_quality(e, quality_eval.max_quality_id,
                                            quality_eval.max_quality_fps, 0)
           ELSE mjpeg_encoder_reset_quality(e, MJPEG_QUALITY_SAMPLE_NUM \div 2,
                                            MJPEG_MAX_FPS \div 2, 0))

----------------------------------------------------------------------------
(* Bit-rate changes *)

\* num_enc_frames > MJPEG_BIT_RATE_EVAL_MIN_NUM_FRAMES || num_enc_frames > fps
EnoughFramesToMeasure(rc) ==
    \/ rc.bit_rate_info.num_enc_frames > MJPEG_BIT_RATE_EVAL_MIN_NUM_FRAMES
    \/ rc.bit_rate_info.num_enc_frames > rc.fps

\* last_frame_time - change_start_time, in ms
MeasuredDuration(rc) ==
    rc.bit_rate_info.last_frame_time - rc.bit_rate_info.change_start_time

\* sum_enc_size / duration_sec, truncated to uint64_t.  A zero duration makes
\* the C division produce inf or nan, whose conversion is undefined; the
\* model answers -1 there, a byte rate no defined conversion produces.
MeasuredByteRate(rc) ==
    IF MeasuredDuration(rc) = 0 THEN -1
    ELSE MulDiv(rc.bit_rate_info.sum_enc_size, MSEC_PER_SEC, MeasuredDuration(rc))

\* sum_enc_size / num_enc_frames
AvgFrameSize(rc) == rc.bit_rate_info.sum_enc_size \div rc.bit_rate_info.num_enc_frames

\* a variant of DuringWarmup that takes MJPEG_WARMUP_TIME for 3 ms
DuringWarmupInMillis(rc, t) ==
    rc.warmup_start_time # 0 /\ t - rc.warmup_start_time < MJPEG_WARMUP_TIME \div MSEC_PER_SEC

\* now - warmup_start_time < MJPEG_WARMUP_TIME, for a non-zero warmup_start_time
DuringWarmup(rc, t) ==
    rc.warmup_start_time # 0 /\ t - rc.warmup_start_time < MJPEG_WARMUP_TIME

\* a variant of DecreasedByteRate that decreases from the measured rate even
\* when it is above byte_rate
DecreasedByteRateFromMeasured(rc) ==
    LET measured_byte_rate == IF EnoughFramesToMeasure(rc) THEN MeasuredByteRate(rc)
                              ELSE rc.byte_rate
        decrease0 == IF EnoughFramesToMeasure(rc) THEN AvgFrameSize(rc)
                     ELSE rc.byte_rate \div rc.fps
        decrease_size == IF decrease0 >= measured_byte_rate
                         THEN measured_byte_rate \div 2 ELSE decrease0
    IN measured_byte_rate - decrease_size

\* the byte rate Decrease-bit-rate sets
DecreasedByteRate(rc) ==
    LET measured == IF EnoughFramesToMeasure(rc) THEN MeasuredByteRate(rc)
                    ELSE rc.byte_rate
        decrease0 == IF EnoughFramesToMeasure(rc) THEN AvgFrameSize(rc)
                     ELSE rc.byte_rate \div rc.fps
        measured_byte_rate == MIN(rc.byte_rate, measured)
        decrease_size == IF decrease0 >= measured_byte_rate
                         THEN measured_byte_rate \div 2 ELSE decrease0
    IN measured_byte_rate - decrease_size

\* a variant of IncreasedByteRate that always takes the measured rate
IncreasedByteRateAlways(rc) ==
    MIN(MeasuredByteRate(rc), rc.byte_rate) + AvgFrameSize(rc)

\* the byte rate Increase-bit-rate sets (EnoughFramesToMeasure holds)
IncreasedByteRate(rc) ==
    LET measured_byte_rate == MeasuredByteRate(rc)
        increase_size == AvgFrameSize(rc)
    IN IF measured_byte_rate + increase_size < rc.byte_rate
       THEN rc.byte_rate
       ELSE MIN(measured_byte_rate, rc.byte_rate) + increase_size

\* a Decrease/Increase-bit-rate call, recorded with the state before and after
Called(fn, t, before, after) ==
    [after EXCEPT !.calls = Append(@, [fn |-> fn, now |-> t,
                                       pre |-> before.rate_control,
                                       post |-> after.rate_control])]

\* a variant of mjpeg_encoder_decrease_bit_rate that tests for warm-up before
\* it does anything else
mjpeg_encoder_decrease_bit_rate_after_warmup(e, t) ==
    LET e1 == mjpeg_encoder_quality_eval_stop(e)
        e2 == [e1 EXCEPT !.rate_control.client_state = ZeroClientState]
        rc == e2.rate_control
        e3 == [e2 EXCEPT !.rate_control.warmup_start_time = 0,
                         !.rate_control.byte_rate = DecreasedByteRate(rc),
                         !.rate_control.bit_rate_info = ZeroBitRateInfo]
        e4 == mjpeg_encoder_quality_eval_set_downgrade(
                  e3, MJPEG_QUALITY_EVAL_REASON_RATE_CHANGE, rc.quality_id, rc.fps)
    IN Called("decrease_bit_rate", t, e,
              IF DuringWarmup(e.rate_control, t)
              THEN Stopped(e, e) ELSE e4)

\* a variant of mjpeg_encoder_decrease_bit_rate that keeps the time of the last
\* admitted frame across the bit-rate change
mjpeg_encoder_decrease_bit_rate_keeping_last_frame(e, t) ==
    LET e1 == mjpeg_encoder_quality_eval_stop(e)
        e2 == [e1 EXCEPT !.rate_control.client_state = ZeroClientState]
        rc == e2.rate_control
        e3 == [e2 EXCEPT !.rate_control.warmup_start_time = 0,
                         !.rate_control.byte_rate = DecreasedByteRate(rc),
                         !.rate_control.bit_rate_info =
                             [ZeroBitRateInfo EXCEPT
                                 !.last_frame_time = rc.bit_rate_info.last_frame_time]]
        e4 == mjpeg_encoder_quality_eval_set_downgrade(
                  e3, MJPEG_QUALITY_EVAL_REASON_RATE_CHANGE, rc.quality_id, rc.fps)
    IN Called("decrease_bit_rate", t, e, IF DuringWarmup(rc, t) THEN e2 ELSE e4)

\* a variant of mjpeg_encoder_decrease_bit_rate that lowers byte_rate without
\* entering the DOWNGRADE evaluation
mjpeg_encoder_decrease_bit_rate_without_evaluation(e, t) ==
    LET e1 == mjpeg_encoder_quality_eval_stop(e)
        e2 == [e1 EXCEPT !.rate_control.client_state = ZeroClientState]
        rc == e2.rate_control
        e3 == [e2 EXCEPT !.rate_control.warmup_start_time = 0,
                         !.rate_control.byte_rate = DecreasedByteRate(rc),
                         !.rate_control.bit_rate_info = ZeroBitRateInfo]
    IN Called("decrease_bit_rate", t, e, IF DuringWarmup(rc, t) THEN e2 ELSE e3)

mjpeg_encoder_decrease_bit_rate(e, t) ==
    LET e1 == mjpeg_encoder_quality_eval_stop(e)
        e2 == [e1 EXCEPT !.rate_control.client_state = ZeroClientState]
        rc == e2.rate_control
        e3 == [e2 EXCEPT !.rate_control.warmup_start_time = 0,
                         !.rate_control.byte_rate = DecreasedByteRate(rc),
                         !.rate_control.bit_rate_info = ZeroBitRateInfo]
        e4 == mjpeg_encoder_quality_eval_set_downgrade(
                  e3, MJPEG_QUALITY_EVAL_REASON_RATE_CHANGE, rc.quality_id, rc.fps)
    IN Called("decrease_bit_rate", t, e, IF DuringWarmup(rc, t) THEN e2 ELSE e4)

\* the record of one run of a report handler: the fields of the encoder it
\* read, the media time it was given, and whether it left the encoder as it
\* found it
Handled(fn, t, before, after, report_mm_time) ==
    IF ~before.traced THEN after
    ELSE [after EXCEPT !.calls =
            Append(@, [fn |-> fn, now |-> t,
                       pre |-> [change_start_mm_time |->
                                    before.rate_control.bit_rate_info.change_start_mm_time,
                                was_upgraded |-> before.rate_control.bit_rate_info.was_upgraded,
                                fps |-> before.rate_control.fps,
                                quality_id |-> before.rate_control.quality_id],
                       report_mm_time |-> report_mm_time,
                       same |-> after.rate_control = before.rate_control])]

\* a variant of NegativeReportIgnored that ignores a late report even after
\* an upgrade
NegativeReportIgnoredAfterUpgrade(bit_rate_info, report_end_frame_mm_time) ==
    \/ bit_rate_info.change_start_mm_time > report_end_frame_mm_time
    \/ bit_rate_info.change_start_mm_time = 0

\* a variant of NegativeReportIgnored that ignores only a report older than the
\* last bit-rate change, not one that arrives before any frame was counted
NegativeReportIgnoredWhenOlder(bit_rate_info, report_end_frame_mm_time) ==
    /\ bit_rate_info.change_start_mm_time > report_end_frame_mm_time
    /\ ~bit_rate_info.was_upgraded

NegativeReportIgnored(bit_rate_info, report_end_frame_mm_time) ==
    /\ \/ bit_rate_info.change_start_mm_time > report_end_frame_mm_time
       \/ bit_rate_info.change_start_mm_time = 0
    /\ ~bit_rate_info.was_upgraded

mjpeg_encoder_handle_negative_client_stream_report(e, t, report_end_frame_mm_time) ==
    Handled("handle_negative_client_stream_report", t, e,
            IF NegativeReportIgnored(e.rate_control.bit_rate_info, report_end_frame_mm_time)
            THEN e
            ELSE mjpeg_encoder_decrease_bit_rate(e, t),
            report_end_frame_mm_time)

\* a variant of mjpeg_encoder_increase_bit_rate that stops the evaluation in
\* progress before it looks at the number of frames measured
mjpeg_encoder_increase_bit_rate_stopping_first(e, t) ==
    LET rc == e.rate_control
        e1 == mjpeg_encoder_quality_eval_stop(e)
        e2 == [e1 EXCEPT !.rate_control.byte_rate = IncreasedByteRate(rc),
                         !.rate_control.bit_rate_info =
                             [ZeroBitRateInfo EXCEPT !.was_upgraded = TRUE]]
        e3 == mjpeg_encoder_quality_eval_set_upgrade(
                  e2, MJPEG_QUALITY_EVAL_REASON_RATE_CHANGE,
                  e2.rate_control.quality_id, e2.rate_control.fps)
    IN Called("increase_bit_rate", t, e, IF EnoughFramesToMeasure(rc) THEN e3 ELSE e1)

mjpeg_encoder_increase_bit_rate(e, t) ==
    LET rc == e.rate_control
        e1 == mjpeg_encoder_quality_eval_stop(e)
        e2 == [e1 EXCEPT !.rate_control.byte_rate = IncreasedByteRate(rc),
                         !.rate_control.bit_rate_info =
                             [ZeroBitRateInfo EXCEPT !.was_upgraded = TRUE]]
        e3 == mjpeg_encoder_quality_eval_set_upgrade(
                  e2, MJPEG_QUALITY_EVAL_REASON_RATE_CHANGE,
                  e2.rate_control.quality_id, e2.rate_control.fps)
    IN Called("increase_bit_rate", t, e, IF EnoughFramesToMeasure(rc) THEN e3 ELSE e)

\* a variant of PositiveReportTimeout that never takes the strict timeout
PositiveReportTimeoutLenient(rc, source_fps) ==
    MJPEG_CLIENT_POSITIVE_REPORT_TIMEOUT

PositiveReportTimeout(rc, source_fps) ==
    IF /\ \/ rc.fps > MJPEG_IMPROVE_QUALITY_FPS_STRICT_TH
          \/ rc.fps >= source_fps
       /\ rc.quality_id > MJPEG_QUALITY_SAMPLE_NUM \div 2
    THEN MJPEG_CLIENT_POSITIVE_REPORT_STRICT_TIMEOUT
    ELSE MJPEG_CLIENT_POSITIVE_REPORT_TIMEOUT

mjpeg_encoder_handle_positive_client_stream_report(e, t, source_fps, report_start_frame_mm_time) ==
    LET rc == e.rate_control
        stable_client_mm_time ==
            report_start_frame_mm_time - rc.bit_rate_info.change_start_mm_time
    IN Handled("handle_positive_client_stream_report", t, e,
               IF /\ rc.during_quality_eval
                  /\ rc.quality_eval_data.reason = MJPEG_QUALITY_EVAL_REASON_RATE_CHANGE
               THEN e
               ELSE IF \/ rc.bit_rate_info.change_start_mm_time = 0
                       \/ stable_client_mm_time < PositiveReportTimeout(rc, source_fps)
               THEN e
               ELSE mjpeg_encoder_increase_bit_rate(e, t),
               report_start_frame_mm_time)

----------------------------------------------------------------------------
(* Server-drop monitor *)

\* a variant of TooManyServerDrops with a threshold of one frame in five
TooManyServerDropsOneInFive(server_state) ==
    5 * server_state.num_frames_dropped
        > server_state.num_frames_dropped + server_state.num_frames_encoded

\* drop_factor > MJPEG_SERVER_STATUS_DOWNGRADE_DROP_FACTOR_TH (0.1)
TooManyServerDrops(server_state) ==
    10 * server_state.num_frames_dropped
        > server_state.num_frames_dropped + server_state.num_frames_encoded

\* the record of one run of the server-drop monitor: the counters and fps it
\* found, the counters it left, and whether it left the encoder as it found it
Monitored(t, before, after) ==
    [after EXCEPT !.calls =
        Append(@, [fn |-> "process_server_drops", now |-> t,
                   pre |-> [server_state |-> before.rate_control.server_state,
                            fps |-> before.rate_control.fps],
                   post |-> [server_state |-> after.rate_control.server_state],
                   same |-> after.rate_control = before.rate_control])]

mjpeg_encoder_process_server_drops(e, t, source_fps) ==
    LET server_state == e.rate_control.server_state
        fps == MIN(e.rate_control.fps, source_fps)
        e1 == IF TooManyServerDrops(server_state)
              THEN mjpeg_encoder_decrease_bit_rate(e, t) ELSE e
    IN Monitored(t, e,
           IF server_state.num_frames_encoded < fps * MJPEG_SERVER_STATUS_EVAL_FPS_INTERVAL
           THEN e
           ELSE [e1 EXCEPT !.rate_control.server_state = ZeroServerState])

----------------------------------------------------------------------------
(* Adjust-to-bit-rate and FPS pacing *)

\* a variant of RecentWindowTooSmall that takes two frames for a full window
RecentWindowTooSmallForTwo(rc) ==
    /\ rc.num_recent_enc_frames < MJPEG_AVERAGE_SIZE_WINDOW - 1
    /\ rc.num_recent_enc_frames < rc.fps

\* num_recent_enc_frames < MJPEG_AVERAGE_SIZE_WINDOW &&
\* num_recent_enc_frames < fps: goto end
RecentWindowTooSmall(rc) ==
    /\ rc.num_recent_enc_frames < MJPEG_AVERAGE_SIZE_WINDOW
    /\ rc.num_recent_enc_frames < rc.fps

\* "FPS CHANGE >>": new_fps > fps && (fps < src_fps || quality_id < 6)
FpsChangeUp(rc, new_fps, source_fps) ==
    /\ new_fps > rc.fps
    /\ (rc.fps < source_fps \/ rc.quality_id < MJPEG_QUALITY_SAMPLE_NUM - 1)

\* a variant of FpsChangeDown that does not look at the source's frame rate
FpsChangeDownWhateverSource(rc, new_fps, source_fps) == new_fps < rc.fps

\* "FPS CHANGE <<": new_fps < fps && new_fps < src_fps
FpsChangeDown(rc, new_fps, source_fps) ==
    new_fps < rc.fps /\ new_fps < source_fps

mjpeg_encoder_adjust_params_to_bit_rate(e, t, source_fps, latency) ==
    LET rc == e.rate_control
        q == rc.quality_id
        too_few == RecentWindowTooSmall(rc)
        new_avg_enc_size == IF too_few THEN 0
                            ELSE rc.sum_recent_enc_size \div rc.num_recent_enc_frames
        new_fps == get_max_fps(new_avg_enc_size, rc.byte_rate)
        e1 == IF too_few THEN e
              ELSE IF FpsChangeUp(rc, new_fps, source_fps)
              THEN mjpeg_encoder_quality_eval_set_upgrade(
                       e, MJPEG_QUALITY_EVAL_REASON_SIZE_CHANGE, q, rc.fps)
              ELSE IF FpsChangeDown(rc, new_fps, source_fps)
              THEN mjpeg_encoder_quality_eval_set_downgrade(
                       e, MJPEG_QUALITY_EVAL_REASON_SIZE_CHANGE, q, rc.fps)
              ELSE e
    IN Traced("adjust_params_to_bit_rate", e,
         IF rc.last_enc_size = 0 THEN e
         ELSE IF rc.during_quality_eval
         THEN mjpeg_encoder_eval_quality(
                  [e EXCEPT !.rate_control.quality_eval_data.encoded_size_by_quality[q] =
                                rc.last_enc_size],
                  source_fps, latency)
         ELSE IF rc.num_recent_enc_frames = 0 THEN e
         ELSE IF e1.rate_control.during_quality_eval
         THEN mjpeg_encoder_eval_quality(
                  [e1 EXCEPT !.rate_control.quality_eval_data.encoded_size_by_quality[q] =
                                 new_avg_enc_size],
                  source_fps, latency)
         ELSE mjpeg_encoder_process_server_drops(e1, t, source_fps))

\* x * n < k and x * n > k for n > 0, by division so that no product is formed
LessThanQuotient(x, k, n) == x <= (k - 1) \div n
MoreThanQuotient(x, k, n) == x > k \div n

\* a variant of AdjustedFps without the MIN and MAX against fps
AdjustedFpsUnbounded(rc, passed, source_fps) ==
    LET frames == rc.adjusted_fps_num_frames
        scaled == FracMul(rc.adjusted_fps, Frac(rc.fps * passed, frames * MSEC_PER_SEC))
    IN IF /\ MoreThanQuotient(passed, 2 * frames * MSEC_PER_SEC, 2 * rc.fps - 1)
          /\ source_fps > 0
          /\ MoreThanQuotient(passed, frames * MSEC_PER_SEC, source_fps)
       THEN IF frames = 0 THEN FracMul(rc.adjusted_fps, <<2, 1>>) ELSE scaled
       ELSE IF LessThanQuotient(passed, 2 * frames * MSEC_PER_SEC, 2 * rc.fps + 1)
       THEN scaled
       ELSE rc.adjusted_fps

\* the adjusted_fps that mjpeg_encoder_adjust_fps computes when its window is over:
\* avg_fps = num_frames * 1000 / passed, fps_ratio = avg_fps / fps
AdjustedFps(rc, passed, source_fps) ==
    LET frames == rc.adjusted_fps_num_frames
        \* adjusted_fps / fps_ratio
        scaled == FracMul(rc.adjusted_fps, Frac(rc.fps * passed, frames * MSEC_PER_SEC))
        \* adjusted_fps / fps_ratio >= fps * 2
        doubled == ~LessThanQuotient(passed,
                                     2 * frames * MSEC_PER_SEC * rc.adjusted_fps[2],
                                     rc.adjusted_fps[1])
    IN IF \* avg_fps + 0.5 < fps
          /\ MoreThanQuotient(passed, 2 * frames * MSEC_PER_SEC, 2 * rc.fps - 1)
          \* src_fps > avg_fps
          /\ source_fps > 0
          /\ MoreThanQuotient(passed, frames * MSEC_PER_SEC, source_fps)
       THEN IF frames = 0
            THEN FracMin(<<rc.fps * 2, 1>>, FracMul(rc.adjusted_fps, <<2, 1>>))
            ELSE IF doubled THEN <<rc.fps * 2, 1>> ELSE scaled
       ELSE IF \* fps + 0.5 < avg_fps
               LessThanQuotient(passed, 2 * frames * MSEC_PER_SEC, 2 * rc.fps + 1)
       THEN FracMax(<<rc.fps, 1>>, scaled)
       ELSE rc.adjusted_fps

mjpeg_encoder_adjust_fps(e, t, source_fps) ==
    LET rc == e.rate_control
        adjusted_fps_time_passed == t - rc.adjusted_fps_start_time
    IN IF /\ ~rc.during_quality_eval
          /\ adjusted_fps_time_passed > MJPEG_ADJUST_FPS_TIMEOUT
          \* adjusted_fps_time_passed > MSEC_PER_SEC / adjusted_fps
          /\ MoreThanQuotient(adjusted_fps_time_passed,
                              MSEC_PER_SEC * rc.adjusted_fps[2], rc.adjusted_fps[1])
       THEN [e EXCEPT
               !.rate_control.adjusted_fps =
                   AdjustedFps(rc, adjusted_fps_time_passed, source_fps),
               !.rate_control.adjusted_fps_start_time = t,
               !.rate_control.adjusted_fps_num_frames = 0]
       ELSE e

----------------------------------------------------------------------------
(* The encoder facade *)

\* a variant of TooEarly that also drops a frame arriving exactly on time
TooEarlyOrOnTime(interval, adjusted_fps) ==
    interval * adjusted_fps[1] <= MSEC_PER_SEC * adjusted_fps[2]

\* a variant of TooEarly that takes the interval for seconds
TooEarlyInSeconds(interval, adjusted_fps) ==
    LessThanQuotient(interval, adjusted_fps[2], adjusted_fps[1])

\* interval < NSEC_PER_SEC / adjusted_fps
TooEarly(interval, adjusted_fps) ==
    LessThanQuotient(interval, MSEC_PER_SEC * adjusted_fps[2], adjusted_fps[1])

\* a variant of StartFrameAdmitted that moves change_start_time with every
\* admitted frame
StartFrameAdmittedMovingStart(e, t, format_ok, frame_mm_time, g) ==
    LET rc == e.rate_control
        counted == \/ ~rc.during_quality_eval
                   \/ rc.quality_eval_data.reason = MJPEG_QUALITY_EVAL_REASON_SIZE_CHANGE
    IN [e |-> IF counted
              THEN [e EXCEPT
                      !.rate_control.bit_rate_info.change_start_time = t,
                      !.rate_control.bit_rate_info.change_start_mm_time =
                          IF rc.bit_rate_info.change_start_time = 0
                          THEN frame_mm_time ELSE @,
                      !.rate_control.bit_rate_info.last_frame_time = t]
              ELSE e,
        gate |-> g,
        ret |-> IF format_ok THEN VIDEO_ENCODER_FRAME_ENCODE_DONE
                ELSE VIDEO_ENCODER_FRAME_UNSUPPORTED]

\* start_frame once the frame is admitted: the encoder e has adjusted its
\* parameters; bit_rate_info takes the frame when no rate-change evaluation runs
StartFrameAdmitted(e, t, format_ok, frame_mm_time, g) ==
    LET rc == e.rate_control
        counted == \/ ~rc.during_quality_eval
                   \/ rc.quality_eval_data.reason = MJPEG_QUALITY_EVAL_REASON_SIZE_CHANGE
    IN [e |-> IF counted
              THEN [e EXCEPT
                      !.rate_control.bit_rate_info.change_start_time =
                          IF @ = 0 THEN t ELSE @,
                      !.rate_control.bit_rate_info.change_start_mm_time =
                          IF rc.bit_rate_info.change_start_time = 0
                          THEN frame_mm_time ELSE @,
                      !.rate_control.bit_rate_info.last_frame_time = t]
              ELSE e,
        gate |-> g,
        ret |-> IF format_ok THEN VIDEO_ENCODER_FRAME_ENCODE_DONE
                ELSE VIDEO_ENCODER_FRAME_UNSUPPORTED]

\* a variant of StartFramePaced that measures the interval from the last
\* submitted frame: a dropped frame moves last_frame_time too
StartFramePacedFromLastSubmitted(e, t, format_ok, frame_mm_time, source_fps, latency) ==
    LET interval == t - e.rate_control.bit_rate_info.last_frame_time
        g == [interval |-> interval, adjusted_fps |-> e.rate_control.adjusted_fps]
    IN IF TooEarly(interval, e.rate_control.adjusted_fps)
       THEN [e |-> [e EXCEPT !.rate_control.bit_rate_info.last_frame_time = t],
             ret |-> VIDEO_ENCODER_FRAME_DROP, gate |-> g]
       ELSE StartFrameAdmitted(
                mjpeg_encoder_adjust_params_to_bit_rate(e, t, source_fps, latency),
                t, format_ok, frame_mm_time, g)

\* start_frame from the admission gate on: the encoder e has updated its pacing
StartFramePaced(e, t, format_ok, frame_mm_time, source_fps, latency) ==
    LET interval == t - e.rate_control.bit_rate_info.last_frame_time
        g == [interval |-> interval, adjusted_fps |-> e.rate_control.adjusted_fps]
    IN IF TooEarly(interval, e.rate_control.adjusted_fps)
       THEN [e |-> e, ret |-> VIDEO_ENCODER_FRAME_DROP, gate |-> g]
       ELSE StartFrameAdmitted(
                mjpeg_encoder_adjust_params_to_bit_rate(e, t, source_fps, latency),
                t, format_ok, frame_mm_time, g)

\* Answers [e, ret, gate]: the encoder, the return value, and what the admission
\* gate compared.  format_ok is false for an unrecognised bitmap format or a row
\* stride that overflows.
mjpeg_encoder_start_frame(e, t, format_ok, frame_mm_time, source_fps, latency) ==
    LET e1 == IF e.rate_control.adjusted_fps_start_time = 0
              THEN [e EXCEPT !.rate_control.adjusted_fps_start_time = t] ELSE e
    IN StartFramePaced(mjpeg_encoder_adjust_fps(e1, t, source_fps), t, format_ok,
                       frame_mm_time, source_fps, latency)

\* a variant of mjpeg_encoder_end_frame that counts the frame in every state
mjpeg_encoder_end_frame_counting_always(e, size) ==
    LET rc == e.rate_control
        restart == rc.num_recent_enc_frames >= MJPEG_AVERAGE_SIZE_WINDOW
    IN Traced("end_frame", e, [e EXCEPT !.rate_control =
         [rc EXCEPT
            !.last_enc_size = size,
            !.server_state.num_frames_encoded = @ + 1,
            !.sum_recent_enc_size = (IF restart THEN 0 ELSE @) + size,
            !.num_recent_enc_frames = (IF restart THEN 0 ELSE @) + 1,
            !.adjusted_fps_num_frames = @ + 1,
            !.bit_rate_info.sum_enc_size = @ + size,
            !.bit_rate_info.num_enc_frames = @ + 1]])

\* a variant of mjpeg_encoder_end_frame that restarts the recent-size window
\* only once it holds more than MJPEG_AVERAGE_SIZE_WINDOW frames
mjpeg_encoder_end_frame_restarting_late(e, size) ==
    LET rc == e.rate_control
        counted == \/ ~rc.during_quality_eval
                   \/ rc.quality_eval_data.reason = MJPEG_QUALITY_EVAL_REASON_SIZE_CHANGE
        restart == rc.num_recent_enc_frames > MJPEG_AVERAGE_SIZE_WINDOW
    IN Traced("end_frame", e, [e EXCEPT !.rate_control =
         [rc EXCEPT
            !.last_enc_size = size,
            !.server_state.num_frames_encoded = @ + 1,
            !.sum_recent_enc_size =
                IF rc.during_quality_eval THEN @
                ELSE (IF restart THEN 0 ELSE @) + size,
            !.num_recent_enc_frames =
                IF rc.during_quality_eval THEN @
                ELSE (IF restart THEN 0 ELSE @) + 1,
            !.adjusted_fps_num_frames = IF rc.during_quality_eval THEN @ ELSE @ + 1,
            !.bit_rate_info.sum_enc_size = IF counted THEN @ + size ELSE @,
            !.bit_rate_info.num_enc_frames = IF counted THEN @ + 1 ELSE @]])

\* size: dest->pub.next_output_byte - dest->buffer, the length of the JPEG
mjpeg_encoder_end_frame(e, size) ==
    LET rc == e.rate_control
        counted == \/ ~rc.during_quality_eval
                   \/ rc.quality_eval_data.reason = MJPEG_QUALITY_EVAL_REASON_SIZE_CHANGE
        restart == rc.num_recent_enc_frames >= MJPEG_AVERAGE_SIZE_WINDOW
    IN Traced("end_frame", e, [e EXCEPT !.rate_control =
         [rc EXCEPT
            !.last_enc_size = size,
            !.server_state.num_frames_encoded = @ + 1,
            !.sum_recent_enc_size =
                IF rc.during_quality_eval THEN @
                ELSE (IF restart THEN 0 ELSE @) + size,
            !.num_recent_enc_frames =
                IF rc.during_quality_eval THEN @
                ELSE (IF restart THEN 0 ELSE @) + 1,
            !.adjusted_fps_num_frames = IF rc.during_quality_eval THEN @ ELSE @ + 1,
            !.bit_rate_info.sum_enc_size = IF counted THEN @ + size ELSE @,
            !.bit_rate_info.num_enc_frames = IF counted THEN @ + 1 ELSE @]])

\* What can happen to a frame once it is admitted.
\*   "done"       every scanline is written; the JPEG has `size` bytes
\*   "format"     start_frame rejects the format or the row stride
\*   "line"       get_image_line finds no source line
\*   "scanline"   jpeg_write_scanlines writes nothing
Outcomes == {"done", "format", "line", "scanline"}

\* the rest of mjpeg_encoder_encode_frame once start_frame has answered `started`
encode_frame(started, outcome, size) ==
    IF started.ret # VIDEO_ENCODER_FRAME_ENCODE_DONE THEN started
    ELSE IF outcome = "line"
    THEN [started EXCEPT !.ret = VIDEO_ENCODER_FRAME_UNSUPPORTED]
    ELSE IF outcome = "scanline"
    THEN [started EXCEPT !.ret = VIDEO_ENCODER_FRAME_UNSUPPORTED,
                         !.e.rate_control.last_enc_size = 0]
    ELSE [started EXCEPT !.e = mjpeg_encoder_end_frame(@, size)]

mjpeg_encoder_encode_frame(e, t, frame_mm_time, source_fps, latency, outcome, size) ==
    encode_frame(mjpeg_encoder_start_frame(e, t, outcome # "format", frame_mm_time,
                                           source_fps, latency),
                 outcome, size)

----------------------------------------------------------------------------
(* Client reports and server drops *)

\* a > b where a is uint32_t and b is int32_t: b is converted to uint32_t, so
\* a negative b becomes at least 2^31 and exceeds every a the model produces
GreaterThanAsUnsigned(a, b) == b >= 0 /\ a > b

\* a variant of DuringRateDowngradeEvaluation that looks for an upgrade
DuringRateUpgradeEvaluation(rc) ==
    /\ rc.during_quality_eval
    /\ rc.quality_eval_data.type = MJPEG_QUALITY_EVAL_TYPE_UPGRADE
    /\ rc.quality_eval_data.reason = MJPEG_QUALITY_EVAL_REASON_RATE_CHANGE

\* the report is skipped: "during rate downgrade evaluation"
DuringRateDowngradeEvaluation(rc) ==
    /\ rc.during_quality_eval
    /\ rc.quality_eval_data.type = MJPEG_QUALITY_EVAL_TYPE_DOWNGRADE
    /\ rc.quality_eval_data.reason = MJPEG_QUALITY_EVAL_REASON_RATE_CHANGE

\* a variant of BelowMajorThreshold that compares the delay as unsigned
BelowMajorThresholdAsUnsigned(end_frame_delay, max_video_latency) ==
    end_frame_delay >= 0 /\ 4 * end_frame_delay < max_video_latency

\* end_frame_delay < major_delay_decrease_thresh, a quarter of max_video_latency
BelowMajorThreshold(end_frame_delay, max_video_latency) ==
    4 * end_frame_delay < max_video_latency

\* the record of one client report, kept when the call is traced: the rate
\* control it found and the delay of the last frame it reported
Reported(before, after, end_frame_delay) ==
    IF ~before.traced THEN after
    ELSE [after EXCEPT !.calls = Append(@, [fn |-> "client_stream_report",
                                            pre |-> before.rate_control,
                                            end_frame_delay |-> end_frame_delay])]

mjpeg_encoder_client_stream_report(e, t, source_fps, latency, num_drops, start_frame_mm_time, end_frame_mm_time, end_frame_delay, audio_delay) ==
    LET rc == e.rate_control
        avg_enc_size == IF rc.num_recent_enc_frames # 0
                        THEN rc.sum_recent_enc_size \div rc.num_recent_enc_frames ELSE 0
        e1 == PlaybackDelay(e, avg_enc_size, rc.byte_rate, latency)
        min_playback_delay == e1.delay_call.ret
        is_video_delay_small ==
            /\ GreaterThanAsUnsigned(min_playback_delay, end_frame_delay)
            /\ \/ rc.quality_id # MJPEG_QUALITY_SAMPLE_NUM - 1
               \/ rc.fps < MIN(source_fps, MJPEG_MAX_FPS)
               \/ end_frame_delay < 0
        e2 == IF is_video_delay_small
              THEN update_client_playback_delay(e1, min_playback_delay) ELSE e1
        e3 == [e2 EXCEPT
                 !.rate_control.client_state.max_video_latency = MAX(end_frame_delay, @),
                 !.rate_control.client_state.max_audio_latency = MAX(audio_delay, @)]
        max_video_latency == e3.rate_control.client_state.max_video_latency
    IN Reported(e,
         IF DuringRateDowngradeEvaluation(rc)
         THEN e
         ELSE IF /\ end_frame_delay > 0
                 \* audio_delay < 0.5 * max_audio_latency
                 /\ 2 * audio_delay < rc.client_state.max_audio_latency
                 \* end_frame_delay > 1.25 * audio_delay
                 /\ 4 * end_frame_delay > 5 * audio_delay
         THEN mjpeg_encoder_handle_negative_client_stream_report(e2, t, end_frame_mm_time)
         ELSE IF end_frame_delay < MJPEG_VIDEO_DELAY_TH
         THEN mjpeg_encoder_handle_negative_client_stream_report(e2, t, end_frame_mm_time)
         ELSE IF \* end_frame_delay < medium_delay_decrease_thresh && is_video_delay_small
                 \/ (2 * end_frame_delay < max_video_latency /\ is_video_delay_small)
                 \/ BelowMajorThreshold(end_frame_delay, max_video_latency)
         THEN mjpeg_encoder_handle_negative_client_stream_report(e3, t, end_frame_mm_time)
         ELSE IF num_drops = 0
         THEN mjpeg_encoder_handle_positive_client_stream_report(e3, t, source_fps,
                                                                 start_frame_mm_time)
         ELSE e3,
         end_frame_delay)

mjpeg_encoder_notify_server_frame_drop(e, t, source_fps) ==
    mjpeg_encoder_process_server_drops(
        [e EXCEPT !.rate_control.server_state.num_frames_dropped = @ + 1], t, source_fps)

mjpeg_encoder_get_bit_rate(rc) == rc.byte_rate * 8

\* a variant of mjpeg_encoder_new that takes starting_bit_rate for bytes
mjpeg_encoder_new_in_bytes(bit_rate, t) ==
    [mjpeg_encoder_reset_quality(
         Enter([ZeroRateControl EXCEPT !.byte_rate = bit_rate],
               [frame_enc_size |-> 0, byte_rate |-> 0, latency |-> 0, ret |-> 0]),
         MJPEG_QUALITY_SAMPLE_NUM \div 2, 5, 0).rate_control
     EXCEPT !.during_quality_eval = TRUE,
            !.quality_eval_data.type = MJPEG_QUALITY_EVAL_TYPE_SET,
            !.quality_eval_data.reason = MJPEG_QUALITY_EVAL_REASON_RATE_CHANGE,
            !.warmup_start_time = t]

\* the rate control of a new encoder, created at clock reading t
mjpeg_encoder_new(bit_rate, t) ==
    LET e0 == Enter([ZeroRateControl EXCEPT !.byte_rate = bit_rate \div 8],
                    [frame_enc_size |-> 0, byte_rate |-> 0, latency |-> 0, ret |-> 0])
        e1 == mjpeg_encoder_reset_quality(e0, MJPEG_QUALITY_SAMPLE_NUM \div 2, 5, 0)
    IN [e1.rate_control EXCEPT
          !.during_quality_eval = TRUE,
          !.quality_eval_data.type = MJPEG_QUALITY_EVAL_TYPE_SET,
          !.quality_eval_data.reason = MJPEG_QUALITY_EVAL_REASON_RATE_CHANGE,
          !.warmup_start_time = t]

----------------------------------------------------------------------------
(* The environment: what the host and the client feed the encoder *)

\* host-facing calls in one behaviour of Spec
MaxOps == 7
\* host-facing calls in one behaviour of SpecIdle
MaxIdleOps == 9

StartingBitRates == {8000000}
ConstructionTimes == {1000}
SourceFps == {25}
RoundTrips == {200}
\* clock advance before a frame is submitted, ms
FrameGaps == {40, 1000}
\* clock advance before a frame that fails to encode is submitted, ms
FailedFrameGaps == {40}
\* bytes of an encoded frame
EncSizes == {20000, 120000}
\* clock advance before a report arrives, ms
ReportGaps == {0, 3000}
EndFrameDelays == {-50, 400}
AudioDelays == {0}
\* a report's [start, end] media times, as ms before the report arrives
ReportWindows == {<<1000, 0>>, <<4000, 3500>>}
NumDrops == {0, 1}

\* SpecIdle: a stream of small frames that pauses for over an hour
IdleFrameGaps == {1000, 5000000}
IdleEncSizes == {1000}
IdleEndFrameDelays == {-50}

\* SpecGate: large frames settle the encoder at 5 fps, then frames arrive at
\* the gaps of the admission scenario
MaxGateOps == 13
GateEvalGaps == {1000}
GateFrameGaps == {20, 50, 80, 1000}
GateEncSizes == {200000}

\* SpecWalk: frames whose sizes give 50, 40, 25 and 11 fps at 1,000,000 bytes/s
MaxWalkOps == 5
WalkFrameGaps == {40}
WalkEncSizes == {20000, 25000, 40000, 90000}

\* SpecDrops: a steady stream of small frames at 25 fps, some dropped by the host
MaxDropOps == 36
DropFrameGaps == {40}
DropEncSizes == {20000}

\* SpecReports: frames that settle the encoder at quality 5 and 20 fps or at
\* quality 3 and 8 fps, then reports without drops 1.5 s, 2.5 s or 3.5 s later
MaxReportOps == 7
ReportsFrameGaps == {40}
ReportsEncSizes == {20000, 50000, 120000}
ReportsGaps == {1500, 2500, 3500}
ReportsNumDrops == {0}
ReportsWindows == {<<0, 0>>, <<4000, 3600>>}

\* SpecUpgrades: frames that settle the encoder at quality 3 and 8 fps, and
\* reports 3.5 s after the last call: long enough for an upgrade and, after
\* it, a downgrade
MaxUpgradeOps == 8
UpgradesFrameGaps == {100}
UpgradesEncSizes == {120000}
UpgradesReportGaps == {3500}
UpgradesEndFrameDelays == {-50, -10, 400}

\* SpecLive: frames keep coming while the quality is evaluated; reports arrive
\* only between evaluations
MaxLiveOps == 8
\* frames submitted to an evaluation still in progress after MaxLiveOps calls
MaxEvalFrames == 10
LiveFrameGaps == {100}
LiveEncSizes == {20000, 120000}
LiveReportGaps == {3500}
LiveWindows == {<<0, 0>>}

\* SpecCancel: a slow source, a frame a second, and the host's notifications
\* of dropped frames, which cancel the evaluation in progress
MaxCancelOps == 9
CancelSourceFps == {2}
CancelFrameGaps == {1000}
CancelEncSizes == {120000, 1000000}

\* SpecTraced: frames a second apart and drop notifications, with the runs of
\* Adjust-to-bit-rate, of the commit and of end_frame recorded
MaxTracedOps == 11
TracedSourceFps == {2, 25}
TracedFrameGaps == {1000}
TracedEncSizes == {120000, 1000000}
TracedReportGaps == {3500}
TracedEndFrameDelays == {400}
TracedWindows == {<<0, 0>>}

\* SpecCeiling: frames at 25 fps whose sizes allow 50, 25 and 8 fps at
\* 1,000,000 bytes/s, with the runs of Adjust-to-bit-rate recorded
MaxCeilingOps == 9
CeilingFrameGaps == {40}
CeilingEncSizes == {20000, 40000, 120000}

\* SpecInitial: client reports of every kind while the evaluation begun at
\* construction walks the qualities
MaxInitialOps == 5
InitialFrameGaps == {40}
InitialEncSizes == {20000, 90000}
InitialReportGaps == {100}
InitialNumDrops == {0, 1}
InitialEndFrameDelays == {-50, 50, 400}
InitialAudioDelays == {0, 30, 1000}
InitialWindows == {<<0, 0>>, <<500, 100>>}

\* SpecMinDelay: the arguments get_min_required_playback_delay is applied to
DelayFrameSizes == {0, 1, 1000, 20000, 120000}
DelayByteRates == {0, 1, 1000, 125000, 1000000}
DelayLatencies == {0, 100, 4999, 5000, 6000}

NoGate == [interval |-> 0, adjusted_fps |-> <<0, 1>>]
NoDelayCall == [frame_enc_size |-> 0, byte_rate |-> 0, latency |-> 0, ret |-> 0]

InitFor(bit_rates, source_fps) ==
    /\ starting_bit_rate \in bit_rates
    /\ now \in ConstructionTimes
    /\ src_fps \in source_fps
    /\ roundtrip_ms \in RoundTrips
    /\ rate_control = mjpeg_encoder_new(starting_bit_rate, now)
    /\ op = "new"
    /\ ret = ""
    /\ calls = <<>>
    /\ delays = <<>>
    /\ gate = NoGate
    /\ delay_call = NoDelayCall
    /\ walk = <<rate_control.quality_id>>
    /\ entered = [quality_id |-> rate_control.quality_id, fps |-> rate_control.fps]
    /\ created = now
    /\ nops = 0

InitWith(bit_rates) == InitFor(bit_rates, SourceFps)

Init == InitWith(StartingBitRates)

\* the quality ids of the evaluation in progress after a call that ended with
\* encoder e: a bit-rate change cancels the evaluation it finds and begins one
\* at the id it leaves; a frame extends the walk by the id it steps to
Walked(e) ==
    LET rc == e.rate_control
        changed == \E i \in 1 .. Len(e.calls) :
                       /\ e.calls[i].fn \in {"decrease_bit_rate", "increase_bit_rate"}
                       /\ e.calls[i].post # e.calls[i].pre
        before == IF rate_control.during_quality_eval THEN walk
                  ELSE <<rate_control.quality_id>>
    IN IF ~rc.during_quality_eval THEN <<>>
       ELSE IF changed THEN <<rc.quality_id>>
       ELSE IF rc.quality_id # rate_control.quality_id THEN Append(before, rc.quality_id)
       ELSE before

\* quality_id and fps at the start of the evaluation in progress after a call
\* that ended with encoder e: those a bit-rate change left, or those the call
\* found when it began an evaluation itself
Entered(e) ==
    LET rc == e.rate_control
        changed == \E i \in 1 .. Len(e.calls) :
                       /\ e.calls[i].fn \in {"decrease_bit_rate", "increase_bit_rate"}
                       /\ e.calls[i].post # e.calls[i].pre
    IN IF ~rc.during_quality_eval THEN entered
       ELSE IF changed THEN [quality_id |-> rc.quality_id, fps |-> rc.fps]
       ELSE IF ~rate_control.during_quality_eval
       THEN [quality_id |-> rate_control.quality_id, fps |-> rate_control.fps]
       ELSE entered

\* the state left by a host-facing call that ended with encoder e at time t
Leave(name, t, e, r, g) ==
    /\ rate_control' = e.rate_control
    /\ calls' = e.calls
    /\ delays' = e.delays
    /\ delay_call' = e.delay_call
    /\ walk' = Walked(e)
    /\ entered' = Entered(e)
    /\ now' = t
    /\ op' = name
    /\ ret' = r
    /\ gate' = g
    /\ nops' = nops + 1
    /\ UNCHANGED <<starting_bit_rate, src_fps, roundtrip_ms, created>>

LeaveFrame(t, r) == Leave("encode_frame", t, r.e, r.ret, r.gate)

\* frames carry the media time of their submission: the media clock runs with
\* the monotonic one
SubmitFrameTo(e, gaps, failed_gaps, sizes) ==
    \E outcome \in Outcomes :
      \E dt \in IF outcome = "done" THEN gaps ELSE failed_gaps,
         size \in IF outcome = "done" THEN sizes ELSE {0} :
        LeaveFrame(now + dt,
                   mjpeg_encoder_encode_frame(
                       e, now + dt, now + dt, src_fps,
                       mjpeg_encoder_get_latency(roundtrip_ms), outcome, size))

SubmitFrame(gaps, failed_gaps, sizes) ==
    SubmitFrameTo(Enter(rate_control, delay_call), gaps, failed_gaps, sizes)

\* a report arrives dt after the last call and covers the media times
\* [t - w[1], t - w[2]] before its arrival at t
ReportTo(e, gaps, drops, end_frame_delays, audio_delays, windows) ==
    \E dt \in gaps, num_drops \in drops, end_frame_delay \in end_frame_delays,
       audio_delay \in audio_delays, w \in windows :
      /\ now + dt >= w[1]
      /\ Leave("client_stream_report", now + dt,
               mjpeg_encoder_client_stream_report(
                   e, now + dt, src_fps,
                   mjpeg_encoder_get_latency(roundtrip_ms), num_drops,
                   now + dt - w[1], now + dt - w[2], end_frame_delay, audio_delay),
               "", NoGate)

SendReport(gaps, end_frame_delays, audio_delays) ==
    ReportTo(Enter(rate_control, delay_call), gaps, NumDrops, end_frame_delays,
             audio_delays, ReportWindows)

DropFrameTo(e) ==
    Leave("notify_server_frame_drop", now,
          mjpeg_encoder_notify_server_frame_drop(e, now, src_fps), "", NoGate)

DropFrame == DropFrameTo(Enter(rate_control, delay_call))

EncodeFrame == nops < MaxOps /\ SubmitFrame(FrameGaps, FailedFrameGaps, EncSizes)

ClientStreamReport == nops < MaxOps /\ SendReport(ReportGaps, EndFrameDelays, AudioDelays)

NotifyServerFrameDrop == nops < MaxOps /\ DropFrame

Next == EncodeFrame \/ ClientStreamReport \/ NotifyServerFrameDrop

Spec == Init /\ [][Next]_vars

\* the same calls for a stream of small frames with long pauses and a client
\* that keeps reporting late frames
IdleEncodeFrame == nops < MaxIdleOps /\ SubmitFrame(IdleFrameGaps, FailedFrameGaps, IdleEncSizes)

IdleClientStreamReport == nops < MaxIdleOps /\ SendReport({0}, IdleEndFrameDelays, {0})

IdleNotifyServerFrameDrop == nops < MaxIdleOps /\ DropFrame

NextIdle == IdleEncodeFrame \/ IdleClientStreamReport \/ IdleNotifyServerFrameDrop

SpecIdle == Init /\ [][NextIdle]_vars

\* frames only: one a second while the quality is evaluated, then at the gaps
\* of the admission scenario
GateEncodeFrame ==
    /\ nops < MaxGateOps
    /\ SubmitFrame(IF rate_control.during_quality_eval THEN GateEvalGaps
                   ELSE GateFrameGaps, {}, GateEncSizes)

NextGate == GateEncodeFrame

SpecGate == Init /\ [][NextGate]_vars

\* frames only, of the sizes of the quality walk
WalkEncodeFrame == nops < MaxWalkOps /\ SubmitFrame(WalkFrameGaps, {}, WalkEncSizes)

NextWalk == WalkEncodeFrame

SpecWalk == Init /\ [][NextWalk]_vars

\* a steady stream of frames and the host's notifications of dropped frames
DropsEncodeFrame == nops < MaxDropOps /\ SubmitFrame(DropFrameGaps, {}, DropEncSizes)

DropsNotifyServerFrameDrop == nops < MaxDropOps /\ DropFrame

NextDrops == DropsEncodeFrame \/ DropsNotifyServerFrameDrop

SpecDrops == Init /\ [][NextDrops]_vars

\* frames and reports, with the runs of the report handlers recorded
ReportsEncodeFrame ==
    nops < MaxReportOps /\ SubmitFrame(ReportsFrameGaps, {}, ReportsEncSizes)

ReportsClientStreamReport ==
    /\ nops < MaxReportOps
    /\ ReportTo(EnterTraced(rate_control, delay_call), ReportsGaps, ReportsNumDrops,
                EndFrameDelays, AudioDelays, ReportsWindows)

NextReports == ReportsEncodeFrame \/ ReportsClientStreamReport

SpecReports == Init /\ [][NextReports]_vars

\* frames of one size and reports, with the runs of the report handlers recorded
UpgradesEncodeFrame ==
    nops < MaxUpgradeOps /\ SubmitFrame(UpgradesFrameGaps, {}, UpgradesEncSizes)

UpgradesClientStreamReport ==
    /\ nops < MaxUpgradeOps
    /\ ReportTo(EnterTraced(rate_control, delay_call), UpgradesReportGaps,
                ReportsNumDrops, UpgradesEndFrameDelays, AudioDelays, ReportsWindows)

NextUpgrades == UpgradesEncodeFrame \/ UpgradesClientStreamReport

SpecUpgrades == Init /\ [][NextUpgrades]_vars

\* the host keeps submitting frames, each encoded to a non-zero size, for as
\* long as an evaluation is in progress
FramesKeepComing ==
    \/ nops < MaxLiveOps
    \/ rate_control.during_quality_eval /\ nops < MaxLiveOps + MaxEvalFrames

LiveEncodeFrame == FramesKeepComing /\ SubmitFrame(LiveFrameGaps, {}, LiveEncSizes)

\* what every step of LiveEncodeFrame does, whatever the frame: the fairness
\* condition is stated on it
FrameSubmitted == FramesKeepComing /\ op' = "encode_frame" /\ nops' = nops + 1

LiveClientStreamReport ==
    /\ nops < MaxLiveOps
    /\ ~rate_control.during_quality_eval
    /\ ReportTo(Enter(rate_control, delay_call), LiveReportGaps, ReportsNumDrops,
                EndFrameDelays, AudioDelays, LiveWindows)

NextLive == LiveEncodeFrame \/ LiveClientStreamReport

SpecLive == Init /\ [][NextLive]_vars /\ WF_<<op, nops>>(FrameSubmitted)

\* frames of a slow source and drop notifications
CancelEncodeFrame ==
    nops < MaxCancelOps /\ SubmitFrame(CancelFrameGaps, {}, CancelEncSizes)

CancelNotifyServerFrameDrop == nops < MaxCancelOps /\ DropFrame

NextCancel == CancelEncodeFrame \/ CancelNotifyServerFrameDrop

SpecCancel == InitFor(StartingBitRates, CancelSourceFps) /\ [][NextCancel]_vars

\* frames and drop notifications, with the runs of the internal procedures
\* recorded
TracedEncodeFrame ==
    /\ nops < MaxTracedOps
    /\ SubmitFrameTo(EnterTraced(rate_control, delay_call), TracedFrameGaps, {},
                     TracedEncSizes)

TracedNotifyServerFrameDrop ==
    nops < MaxTracedOps /\ DropFrameTo(EnterTraced(rate_control, delay_call))

TracedClientStreamReport ==
    /\ nops < MaxTracedOps
    /\ ReportTo(EnterTraced(rate_control, delay_call), TracedReportGaps,
                ReportsNumDrops, TracedEndFrameDelays, AudioDelays, TracedWindows)

NextTraced ==
    TracedEncodeFrame \/ TracedNotifyServerFrameDrop \/ TracedClientStreamReport

SpecTraced == InitFor(StartingBitRates, TracedSourceFps) /\ [][NextTraced]_vars

\* frames only, of sizes around the one that allows the source's frame rate
CeilingEncodeFrame ==
    /\ nops < MaxCeilingOps
    /\ SubmitFrameTo(EnterTraced(rate_control, delay_call), CeilingFrameGaps, {},
                     CeilingEncSizes)

NextCeiling == CeilingEncodeFrame

SpecCeiling == InitFor(StartingBitRates, TracedSourceFps) /\ [][NextCeiling]_vars

\* frames that keep the first evaluation walking, and reports between them
InitialEncodeFrame ==
    /\ nops < MaxInitialOps
    /\ SubmitFrame(InitialFrameGaps, {}, InitialEncSizes)

InitialClientStreamReport ==
    /\ nops < MaxInitialOps
    /\ ReportTo(EnterTraced(rate_control, delay_call), InitialReportGaps,
                InitialNumDrops, InitialEndFrameDelays, InitialAudioDelays,
                InitialWindows)

NextInitial == InitialEncodeFrame \/ InitialClientStreamReport

SpecInitial == Init /\ [][NextInitial]_vars

\* get_min_required_playback_delay applied to arguments of the host's choosing
ApplyMinDelay ==
    /\ \E frame_enc_size \in DelayFrameSizes, byte_rate \in DelayByteRates,
          latency \in DelayLatencies :
         delay_call' = PlaybackDelay(Enter(rate_control, delay_call), frame_enc_size,
                                     byte_rate, latency).delay_call
    /\ op' = "get_min_required_playback_delay"
    /\ UNCHANGED <<rate_control, starting_bit_rate, now, src_fps, roundtrip_ms, ret,
                   calls, delays, gate, walk, entered, created, nops>>

NextMinDelay == ApplyMinDelay

SpecMinDelay == Init /\ [][NextMinDelay]_vars

----------------------------------------------------------------------------
(* Properties *)

Calls == {calls[i] : i \in 1 .. Len(calls)}
Decreases == {c \in Calls : c.fn = "decrease_bit_rate"}
Increases == {c \in Calls : c.fn = "increase_bit_rate"}
Monitors == {c \in Calls : c.fn = "process_server_drops"}
Stops == {c \in Calls : c.fn = "quality_eval_stop"}
PositiveReports == {c \in Calls : c.fn = "handle_positive_client_stream_report"}
NegativeReports == {c \in Calls : c.fn = "handle_negative_client_stream_report"}

\* C1: after any sequence of encode_frame, client_stream_report and
\* notify_server_frame_drop calls, 1 <= fps <= 25 and 0 <= quality_id <= 6,
\* the ids the evaluator is probing included
C1_FpsAndQualityInRange ==
    /\ rate_control.fps \in MJPEG_MIN_FPS .. MJPEG_MAX_FPS
    /\ rate_control.quality_id \in 0 .. 6

\* an evaluation has walked to the top quality and committed there, at an fps
\* the clamp had to cut to 25
C1_CommittedAtTheTop ==
    /\ op = "encode_frame"
    /\ Len(delays) > 0
    /\ ~rate_control.during_quality_eval
    /\ rate_control.quality_id = 6
    /\ rate_control.fps = 25
    /\ rate_control.byte_rate > 25 * rate_control.base_enc_size

\* C2: an encoder constructed with starting_bit_rate >= 8 has byte_rate > 0 in
\* every reachable state; no Decrease-bit-rate call leaves byte_rate at 0
C2_ByteRatePositive ==
    starting_bit_rate >= 8 =>
        /\ rate_control.byte_rate > 0
        /\ \A c \in Decreases : c.post.byte_rate > 0

C4_IncreaseNeverReduces ==
    \A c \in Increases : c.post.byte_rate >= c.pre.byte_rate

\* Increase-bit-rate has raised byte_rate
C4_ByteRateIncreased ==
    \E c \in Increases : c.post.byte_rate > c.pre.byte_rate

\* C5: for every (frame_enc_size, byte_rate, latency) with byte_rate > 0,
\* frame_enc_size = 0 and latency > 5000 included, the recommended playback
\* delay is at most 5000 ms
C5_MinDelayCapped ==
    (op = "get_min_required_playback_delay" /\ delay_call.byte_rate > 0) =>
        delay_call.ret <= 5000

\* C6: fps <= adjusted_fps <= 2 * fps in every reachable state
C6_AdjustedFpsInRange ==
    /\ rate_control.fps * rate_control.adjusted_fps[2] <= rate_control.adjusted_fps[1]
    /\ rate_control.adjusted_fps[1] <= 2 * rate_control.fps * rate_control.adjusted_fps[2]

\* the pacing update has just raised adjusted_fps as far as 2 * fps
C6_PacingRaisedToTwiceFps ==
    /\ op = "encode_frame"
    /\ ~rate_control.during_quality_eval
    /\ rate_control.adjusted_fps_start_time = now
    /\ rate_control.adjusted_fps = <<2 * rate_control.fps, 1>>

\* C7: whenever during_quality_eval is false, all seven entries of
\* encoded_size_by_quality are 0
C7_NoSamplesOutsideEvaluation ==
    ~rate_control.during_quality_eval =>
        \A q \in 0 .. 6 : rate_control.quality_eval_data.encoded_size_by_quality[q] = 0

\* an evaluation that sampled several qualities has just committed
C7_CommittedAfterSampling ==
    /\ op = "encode_frame"
    /\ Len(delays) > 0
    /\ ~rate_control.during_quality_eval
    /\ rate_control.quality_id # 3
    /\ rate_control.base_enc_size > 0

\* C8: within one evaluation the evaluator never steps quality_id to an id it
\* has already sampled in that evaluation, so it is at no more than 7 distinct
\* ids before the commit
C8_NeverStepsToSampledQuality ==
    rate_control.during_quality_eval =>
        /\ walk[Len(walk)] = rate_control.quality_id
        /\ rate_control.quality_eval_data.encoded_size_by_quality[rate_control.quality_id] = 0
        /\ \A i, j \in 1 .. Len(walk) : walk[i] = walk[j] => i = j
        /\ Len(walk) <= 7

\* an evaluation has stepped three times, each id it left sampled
C8_WalkedThreeSteps ==
    /\ rate_control.during_quality_eval
    /\ Len(walk) = 4
    /\ \A i \in 1 .. 3 :
          rate_control.quality_eval_data.encoded_size_by_quality[walk[i]] # 0

\* C9: right after construction with starting_bit_rate = 8,000,000:
\* byte_rate = 1,000,000, quality_id = 3, fps = 5, a SET evaluation is in
\* progress, warmup_start_time is not 0 and get_bit_rate() is 8,000,000
C9_AfterConstruction ==
    (op = "new" /\ starting_bit_rate = 8000000) =>
        /\ rate_control.byte_rate = 1000000
        /\ rate_control.quality_id = 3
        /\ rate_control.fps = 5
        /\ rate_control.during_quality_eval
        /\ rate_control.quality_eval_data.type = MJPEG_QUALITY_EVAL_TYPE_SET
        /\ rate_control.warmup_start_time # 0
        /\ mjpeg_encoder_get_bit_rate(rate_control) = 8000000

\* the encoder has just been constructed with 8,000,000 bits per second
C9_JustConstructed ==
    /\ op = "new"
    /\ nops = 0
    /\ starting_bit_rate = 8000000

AtTenFps(g) == g.adjusted_fps = <<10, 1>>

FrameAdmitted ==
    /\ op = "encode_frame"
    /\ ret = VIDEO_ENCODER_FRAME_ENCODE_DONE
    /\ rate_control.bit_rate_info.last_frame_time = now

FrameAfter(dt) == op' = "encode_frame" /\ now' = now + dt /\ AtTenFps(gate')

DroppedAt80 ==
    /\ op = "encode_frame"
    /\ ret = VIDEO_ENCODER_FRAME_DROP
    /\ AtTenFps(gate)
    /\ gate.interval = 80

GateScenarioByTheCode ==
    /\ FrameAdmitted /\ FrameAfter(50) => ret' = VIDEO_ENCODER_FRAME_DROP
    /\ FrameAdmitted /\ FrameAfter(80) => ret' = VIDEO_ENCODER_FRAME_DROP
    /\ DroppedAt80 /\ FrameAfter(20) => ret' = VIDEO_ENCODER_FRAME_ENCODE_DONE

C11_GateAtTenFps == [][GateScenarioByTheCode]_vars

\* C11 (as stated): at adjusted_fps = 10 frames 50 ms apart are all accepted,
\* and of a frame 80 ms later and another 20 ms after it the second is dropped
GateScenarioAsStated ==
    /\ FrameAdmitted /\ FrameAfter(50) => ret' # VIDEO_ENCODER_FRAME_DROP
    /\ op = "encode_frame" /\ AtTenFps(gate) /\ gate.interval = 80 /\ FrameAfter(20)
           => ret' = VIDEO_ENCODER_FRAME_DROP

C11_GateAtTenFpsAsStated == [][GateScenarioAsStated]_vars

C11_AdmittedAfter80And20 ==
    /\ op = "encode_frame"
    /\ ret = VIDEO_ENCODER_FRAME_ENCODE_DONE
    /\ AtTenFps(gate)
    /\ gate.interval = 100
    /\ ~rate_control.during_quality_eval

\* C12 (as amended): a SET evaluation from quality_id 3 at byte_rate 1,000,000
\* and src_fps 25 that sampled 20,000 bytes at q=3, 25,000 at q=4, 40,000 at
\* q=5 and 90,000 at q=6 (50, 40, 25 and 11 fps) commits at quality_id 6 with
\* fps 11: 11 fps is above both fps thresholds, and the commit takes the better
\* of the current quality and the quality of the best sampled fps
WalkSampled ==
    /\ rate_control.during_quality_eval
    /\ rate_control.quality_eval_data.type = MJPEG_QUALITY_EVAL_TYPE_SET
    /\ rate_control.byte_rate = 1000000
    /\ src_fps = 25
    /\ rate_control.quality_id = 6
    /\ walk = <<3, 4, 5, 6>>
    /\ rate_control.quality_eval_data.encoded_size_by_quality =
           [q \in QualityIds |-> CASE q = 3 -> 20000 [] q = 4 -> 25000
                                    [] q = 5 -> 40000 [] OTHER -> 0]
    \* the frame encoded at q=6, sampled when the next frame starts
    /\ rate_control.last_enc_size = 90000

WalkCommits == op' = "encode_frame" /\ ~rate_control'.during_quality_eval

C12_WalkCommitsAtSix ==
    [][WalkSampled /\ WalkCommits
           => rate_control'.quality_id = 6 /\ rate_control'.fps = 11]_vars

\* C12 (as stated): that evaluation commits at quality_id 5
C12_WalkCommitsAtFive ==
    [][WalkSampled /\ WalkCommits => rate_control'.quality_id = 5]_vars

C12_CommittedAfterWalk ==
    /\ op = "encode_frame"
    /\ nops = 5
    /\ ~rate_control.during_quality_eval
    /\ rate_control.quality_id = 6
    /\ rate_control.fps = 11
    /\ rate_control.base_enc_size = 90000
    /\ rate_control.num_recent_enc_frames = 2

\* C13: a run of the server-drop monitor that finds num_frames_encoded >=
\* min(fps, src_fps) calls Decrease-bit-rate once when dropped / (encoded +
\* dropped) > 0.10 and not at all otherwise, and leaves both counters 0; a run
\* that finds fewer encoded frames calls nothing and changes nothing
MonitorRanAsSpecified(m) ==
    LET encoded == m.pre.server_state.num_frames_encoded
        dropped == m.pre.server_state.num_frames_dropped
    IN IF encoded >= MIN(m.pre.fps, src_fps)
       THEN /\ Cardinality(Decreases) = IF 10 * dropped > encoded + dropped THEN 1 ELSE 0
            /\ m.post.server_state = ZeroServerState
       ELSE Decreases = {} /\ m.same

C13_ServerDropMonitor ==
    /\ Cardinality(Monitors) <= 1
    /\ Cardinality(Decreases) = Len(SelectSeq(calls, LAMBDA c : c.fn = "decrease_bit_rate"))
    /\ op \in {"encode_frame", "notify_server_frame_drop"}
           => \A m \in Monitors : MonitorRanAsSpecified(m)

C13_FiveDropsInThirty ==
    /\ op = "notify_server_frame_drop"
    /\ Cardinality(Decreases) = 1
    /\ \E m \in Monitors :
          /\ m.pre.fps = 25
          /\ m.pre.server_state = [num_frames_encoded |-> 25, num_frames_dropped |-> 5]
          /\ m.post.server_state = ZeroServerState

\* C14: a positive report is ignored, leaving the encoder unchanged and
\* Increase-bit-rate uncalled, when change_start_mm_time = 0 or the report
\* starts less than the timeout after change_start_mm_time, the timeout being
\* 3000 ms if (fps > 10 or fps >= src_fps) and quality_id > 3, else 2000 ms;
\* otherwise Increase-bit-rate is called
PositiveReportDebounced(h) ==
    LET timeout == IF (h.pre.fps > 10 \/ h.pre.fps >= src_fps) /\ h.pre.quality_id > 3
                   THEN 3000 ELSE 2000
    IN IF \/ h.pre.change_start_mm_time = 0
          \/ h.report_mm_time - h.pre.change_start_mm_time < timeout
       THEN h.same /\ Increases = {}
       ELSE Cardinality(Increases) = 1

C14_PositiveReportDebounce == \A h \in PositiveReports : PositiveReportDebounced(h)

C14_IncreaseAfterStrictTimeout ==
    /\ Cardinality(Increases) = 1
    /\ \E h \in PositiveReports :
          /\ h.pre.fps = 20
          /\ h.pre.quality_id = 5
          /\ h.pre.change_start_mm_time # 0
          /\ h.report_mm_time - h.pre.change_start_mm_time = 3500

\* C15: a negative report is ignored, leaving the encoder unchanged and
\* Decrease-bit-rate uncalled, exactly when was_upgraded is false and
\* (change_start_mm_time = 0 or change_start_mm_time > report_end_mm_time);
\* otherwise, and so whenever was_upgraded is true, Decrease-bit-rate is called
NegativeReportHandled(h) ==
    IF /\ ~h.pre.was_upgraded
       /\ \/ h.pre.change_start_mm_time = 0
          \/ h.pre.change_start_mm_time > h.report_mm_time
    THEN h.same /\ Decreases = {}
    ELSE Cardinality(Decreases) = 1

C15_NegativeReportHandling == \A h \in NegativeReports : NegativeReportHandled(h)

C15_DecreaseAfterUpgrade ==
    /\ Cardinality(Decreases) = 1
    /\ \E h \in NegativeReports :
          /\ h.pre.was_upgraded
          /\ h.pre.change_start_mm_time = 0

\* C16: whenever encode_frame returns UNSUPPORTED, last_enc_size is 0 afterwards
C16_UnsupportedZeroesLastEncSize ==
    op = "encode_frame" /\ ret = VIDEO_ENCODER_FRAME_UNSUPPORTED
        => rate_control.last_enc_size = 0

\* C17: while frames keep being submitted, admitted and encoded to a non-zero
\* size and no report or drop notification intervenes, an evaluation in
\* progress eventually commits
C17_EvaluationCommits ==
    rate_control.during_quality_eval ~> ~rate_control.during_quality_eval

C17_CommittedPastTheBound ==
    /\ op = "encode_frame"
    /\ nops > MaxLiveOps
    /\ ~rate_control.during_quality_eval
    /\ rate_control.base_enc_size > 0

\* C18: a client_stream_report received during an evaluation of type DOWNGRADE
\* and reason RATE_CHANGE changes nothing of the rate control (byte_rate,
\* quality_id, fps, evaluation data, BitRateInfo, ClientState, ServerState) and
\* hands no value to update_client_playback_delay
RateDowngradeInProgress ==
    /\ rate_control.during_quality_eval
    /\ rate_control.quality_eval_data.type = MJPEG_QUALITY_EVAL_TYPE_DOWNGRADE
    /\ rate_control.quality_eval_data.reason = MJPEG_QUALITY_EVAL_REASON_RATE_CHANGE

ReportSkipped ==
    /\ rate_control' = rate_control
    /\ delay_call' = delay_call
    /\ delays' = <<>>
    /\ \A i \in 1 .. Len(calls') : calls'[i].fn = "client_stream_report"

C18_ReportSkippedDuringRateDowngrade ==
    [][RateDowngradeInProgress /\ op' = "client_stream_report" => ReportSkipped]_vars

C18_ReportedDuringRateDowngrade ==
    /\ op = "client_stream_report"
    /\ RateDowngradeInProgress
    /\ \A i \in 1 .. Len(calls) : calls[i].fn = "client_stream_report"
    /\ delays = <<>>

\* C19: mjpeg_encoder_quality_eval_stop, run during an UPGRADE or DOWNGRADE
\* evaluation, restores quality_id and fps to what they were when the
\* evaluation began, however far the walk has moved, and leaves
\* during_quality_eval false and base_enc_size 0; run during a SET evaluation it
\* leaves quality_id 3 and fps 12; run outside an evaluation it changes nothing
StopRestored(s) ==
    IF ~s.pre.during_quality_eval THEN s.post = s.pre
    ELSE /\ ~s.post.during_quality_eval
         /\ s.post.base_enc_size = 0
         /\ IF s.pre.quality_eval_data.type = MJPEG_QUALITY_EVAL_TYPE_SET
            THEN s.post.quality_id = 3 /\ s.post.fps = 12
            ELSE s.post.quality_id = entered.quality_id /\ s.post.fps = entered.fps

C19_StopRestoresEntryValues ==
    [][\A i \in 1 .. Len(calls') :
          calls'[i].fn = "quality_eval_stop" => StopRestored(calls'[i])]_vars

C19_StoppedAfterTheWalkMoved ==
    \E s \in Stops :
        /\ s.pre.during_quality_eval
        /\ s.pre.quality_eval_data.type # MJPEG_QUALITY_EVAL_TYPE_SET
        /\ s.pre.quality_id # s.post.quality_id
        /\ s.post.quality_id = entered.quality_id

\* what a Decrease-bit-rate call outside warm-up leaves: fps is read after the
\* evaluation in progress, if any, has been cancelled
DecreaseDone(c) ==
    LET frames == c.pre.bit_rate_info.num_enc_frames
        estimated == frames > 3 \/ frames > c.post.fps
        duration == c.pre.bit_rate_info.last_frame_time
                        - c.pre.bit_rate_info.change_start_time
        measured == IF estimated
                    THEN MulDiv(c.pre.bit_rate_info.sum_enc_size, 1000, duration)
                    ELSE c.pre.byte_rate
        frame_size == IF estimated THEN c.pre.bit_rate_info.sum_enc_size \div frames
                      ELSE c.pre.byte_rate \div c.post.fps
        measured_byte_rate == MIN(measured, c.pre.byte_rate)
        decrease_size == IF frame_size >= measured_byte_rate
                         THEN measured_byte_rate \div 2 ELSE frame_size
    IN /\ c.post.byte_rate = measured_byte_rate - decrease_size
       /\ c.post.byte_rate <= c.pre.byte_rate
       /\ c.post.bit_rate_info.change_start_time = 0
       /\ c.post.bit_rate_info.change_start_mm_time = 0
       /\ c.post.bit_rate_info.last_frame_time = 0
       /\ c.post.bit_rate_info.num_enc_frames = 0
       /\ c.post.bit_rate_info.sum_enc_size = 0
       /\ c.post.bit_rate_info.was_upgraded = FALSE
       /\ c.post.during_quality_eval
       /\ c.post.quality_eval_data.type = MJPEG_QUALITY_EVAL_TYPE_DOWNGRADE
       /\ c.post.quality_eval_data.reason = MJPEG_QUALITY_EVAL_REASON_RATE_CHANGE
       /\ c.post.quality_eval_data.max_quality_id = c.post.quality_id
       /\ c.post.quality_eval_data.max_quality_fps = c.post.fps

\* C20: outside the warm-up window, every Decrease-bit-rate call ends with
\* byte_rate = min(measured_byte_rate, old byte_rate) - decrease_size, which
\* is at most the old byte_rate, with BitRateInfo zeroed and was_upgraded
\* false, and in a DOWNGRADE evaluation of reason RATE_CHANGE whose
\* (max_quality_id, max_quality_fps) is the current (quality_id, fps)
C20_DecreaseOutsideWarmup ==
    \A c \in Decreases : c.now - created >= 3000 => DecreaseDone(c)

\* a Decrease-bit-rate call outside warm-up that measured, over frames
\* already counted, a rate above byte_rate and cut byte_rate
C20_DecreasedFromByteRate ==
    \E c \in Decreases :
        /\ c.now - created >= 3000
        /\ c.pre.bit_rate_info.num_enc_frames > 3
        /\ c.pre.bit_rate_info.last_frame_time > c.pre.bit_rate_info.change_start_time
        /\ MulDiv(c.pre.bit_rate_info.sum_enc_size, 1000,
                  c.pre.bit_rate_info.last_frame_time
                      - c.pre.bit_rate_info.change_start_time) > c.pre.byte_rate
        /\ c.post.byte_rate < c.pre.byte_rate

Adjusts == {c \in Calls : c.fn = "adjust_params_to_bit_rate"}
Commits == {c \in Calls : c.fn = "complete_sample"}
EndFrames == {c \in Calls : c.fn = "end_frame"}

\* not evaluating, and fewer recent frames than 3 and than fps
SmallWindow(a) ==
    /\ ~a.pre.during_quality_eval
    /\ a.pre.num_recent_enc_frames < 3
    /\ a.pre.num_recent_enc_frames < a.pre.fps

\* all that a run of Adjust-to-bit-rate changed was changed by the server-drop
\* monitor it ended with
OnlyMonitored(a) ==
    IF a.pre.last_enc_size = 0 \/ a.pre.num_recent_enc_frames = 0
    THEN a.post = a.pre /\ Monitors = {}
    ELSE /\ \E m \in Monitors :
              /\ m.pre.server_state = a.pre.server_state
              /\ m.pre.fps = a.pre.fps
              /\ m.same => a.post = a.pre
              /\ Decreases = {} =>
                     a.post = [a.pre EXCEPT !.server_state = m.post.server_state]
         /\ \A c \in Decreases :
              /\ c.pre = a.pre
              /\ a.post = [c.post EXCEPT !.server_state = ZeroServerState]
         /\ a.post.during_quality_eval =>
              /\ Decreases # {}
              /\ a.post.quality_eval_data.reason = MJPEG_QUALITY_EVAL_REASON_RATE_CHANGE

C22_UpgradeNeverBelowMin ==
    (/\ rate_control.during_quality_eval
     /\ rate_control.quality_eval_data.type = MJPEG_QUALITY_EVAL_TYPE_UPGRADE)
        => rate_control.quality_id >= rate_control.quality_eval_data.min_quality_id

\* quality_id and fps when the evaluation that a recorded commit ended was
\* entered: those the frame's Adjust-to-bit-rate found if it entered the
\* evaluation itself, else those recorded at the entry
EntryOf(c) ==
    IF \E a \in Adjusts : ~a.pre.during_quality_eval
    THEN LET a == CHOOSE a \in Adjusts : ~a.pre.during_quality_eval
         IN [quality_id |-> a.pre.quality_id, fps |-> a.pre.fps]
    ELSE entered

\* C23: a DOWNGRADE evaluation entered at quality_id = q has max_quality_id = q,
\* never steps to a quality_id above q and never commits one, the commit at
\* max(quality_id, max_sampled_fps_quality_id) included
C23_DowngradeNeverAboveMax ==
    /\ (/\ rate_control.during_quality_eval
        /\ rate_control.quality_eval_data.type = MJPEG_QUALITY_EVAL_TYPE_DOWNGRADE)
           => /\ rate_control.quality_eval_data.max_quality_id = entered.quality_id
              /\ rate_control.quality_id <= entered.quality_id
    /\ \A c \in Commits :
           c.pre.quality_eval_data.type = MJPEG_QUALITY_EVAL_TYPE_DOWNGRADE
               => /\ c.pre.quality_eval_data.max_quality_id = EntryOf(c).quality_id
                  /\ c.pre.quality_id <= EntryOf(c).quality_id
                  /\ c.post.quality_id <= EntryOf(c).quality_id

\* a DOWNGRADE evaluation walked down and committed above the quality_id it
\* had walked to, at the quality of the best sampled frame rate
C23_DowngradeCommittedAtBestSampled ==
    \E c \in Commits :
        /\ c.pre.quality_eval_data.type = MJPEG_QUALITY_EVAL_TYPE_DOWNGRADE
        /\ c.post.quality_id > c.pre.quality_id
        /\ c.post.quality_id = c.pre.quality_eval_data.max_sampled_fps_quality_id

\* C24: a commit at final_quality_id = min_quality_id leaves fps >=
\* min(min_quality_fps, 25), so an upgrade that keeps the quality it was
\* entered at never lowers fps; a commit at final_quality_id = max_quality_id
\* leaves fps <= max_quality_fps, so a downgrade that keeps the quality never
\* raises fps
C24_FpsClampedAtCommit ==
    \A c \in Commits :
        LET quality_eval == c.pre.quality_eval_data
        IN /\ c.post.quality_id = quality_eval.min_quality_id
                 => c.post.fps >= MIN(quality_eval.min_quality_fps, 25)
           /\ c.post.quality_id = quality_eval.max_quality_id
                 => c.post.fps <= quality_eval.max_quality_fps
           /\ (/\ quality_eval.type = MJPEG_QUALITY_EVAL_TYPE_UPGRADE
               /\ c.post.quality_id = EntryOf(c).quality_id)
                 => c.post.fps >= EntryOf(c).fps
           /\ (/\ quality_eval.type = MJPEG_QUALITY_EVAL_TYPE_DOWNGRADE
               /\ c.post.quality_id = EntryOf(c).quality_id)
                 => c.post.fps <= EntryOf(c).fps

\* a DOWNGRADE evaluation committed at max_quality_id with a sample that
\* allowed more than max_quality_fps, and fps was capped there
C24_DowngradeCappedFps ==
    \E c \in Commits :
        /\ c.pre.quality_eval_data.type = MJPEG_QUALITY_EVAL_TYPE_DOWNGRADE
        /\ c.post.quality_id = c.pre.quality_eval_data.max_quality_id
        /\ c.post.base_enc_size > 0
        /\ c.pre.byte_rate \div c.post.base_enc_size > c.pre.quality_eval_data.max_quality_fps
        /\ c.post.fps = c.pre.quality_eval_data.max_quality_fps

\* an UPGRADE evaluation committed at min_quality_id with a sample that
\* allowed less than min_quality_fps, and fps was lifted there
C24_UpgradeLiftedFps ==
    \E c \in Commits :
        /\ c.pre.quality_eval_data.type = MJPEG_QUALITY_EVAL_TYPE_UPGRADE
        /\ c.post.quality_id = c.pre.quality_eval_data.min_quality_id
        /\ c.post.base_enc_size > 0
        /\ c.pre.byte_rate \div c.post.base_enc_size < c.pre.quality_eval_data.min_quality_fps
        /\ c.post.fps = c.pre.quality_eval_data.min_quality_fps

Reports == {c \in Calls : c.fn = "client_stream_report"}

\* the report found the stream at the ceiling
AtTheCeiling(r) ==
    /\ r.pre.quality_id = 6
    /\ r.pre.fps >= MIN(src_fps, 25)
    /\ r.end_frame_delay >= 0

\* C25: for every client report not skipped by the DOWNGRADE + RATE_CHANGE
\* rule, if min_pb exceeds end_frame_delay as a signed value and the stream is
\* not at the ceiling, the host is notified of min_pb
C25_SmallVideoDelayNotified ==
    \A r \in Reports :
        (/\ ~(/\ r.pre.during_quality_eval
              /\ r.pre.quality_eval_data.type = MJPEG_QUALITY_EVAL_TYPE_DOWNGRADE
              /\ r.pre.quality_eval_data.reason = MJPEG_QUALITY_EVAL_REASON_RATE_CHANGE)
         /\ delay_call.ret > r.end_frame_delay
         /\ ~AtTheCeiling(r))
            => Len(delays) > 0 /\ delays[1] = delay_call.ret

\* a Decrease-bit-rate call began with Quality-Eval-Stop: its record follows
\* that of a stop which found what the call found
StoppedFirst(i) ==
    /\ i > 1
    /\ calls[i - 1].fn = "quality_eval_stop"
    /\ calls[i - 1].pre = calls[i].pre
    /\ ~calls[i - 1].post.during_quality_eval

\* C26: every Decrease-bit-rate call, in warm-up or not, first cancels the
\* evaluation in progress with Quality-Eval-Stop and zeroes max_video_latency
\* and max_audio_latency; in warm-up it changes nothing else, so it returns
\* with during_quality_eval false and quality_id and fps as the stop left
\* them; outside warm-up it goes on to byte_rate, BitRateInfo and the
\* DOWNGRADE evaluation
C26_DecreaseStopsAndZeroesLatencies ==
    \A i \in 1 .. Len(calls) :
        calls[i].fn = "decrease_bit_rate" =>
            /\ StoppedFirst(i)
            /\ calls[i].post.client_state.max_video_latency = 0
            /\ calls[i].post.client_state.max_audio_latency = 0
            /\ IF calls[i].now - created < 3000
               THEN calls[i].post =
                        [calls[i - 1].post EXCEPT !.client_state = ZeroClientState]
               ELSE /\ calls[i].post.during_quality_eval
                    /\ calls[i].post.bit_rate_info = ZeroBitRateInfo
                    /\ calls[i].post.quality_id = calls[i - 1].post.quality_id
                    /\ calls[i].post.fps = calls[i - 1].post.fps

\* a Decrease-bit-rate call in warm-up found a video latency recorded and an
\* evaluation whose walk had moved: it returned with during_quality_eval
\* false and quality_id reverted, and left byte_rate as it was
C26_WarmupDecreaseCancelled ==
    \E c \in Decreases :
        /\ c.now - created < 3000
        /\ c.pre.during_quality_eval
        /\ c.pre.client_state.max_video_latency > 0
        /\ ~c.post.during_quality_eval
        /\ c.post.quality_id # c.pre.quality_id
        /\ c.post.byte_rate = c.pre.byte_rate

\* the frame was added to BitRateInfo
CountedInBitRate(f) ==
    /\ f.post.bit_rate_info.num_enc_frames = f.pre.bit_rate_info.num_enc_frames + 1
    /\ f.post.bit_rate_info.sum_enc_size =
           f.pre.bit_rate_info.sum_enc_size + f.post.last_enc_size

\* the frame was added to the recent-size window, restarted when it held 3
\* frames, and to the frames of the adjusted_fps window
CountedInWindows(f) ==
    /\ f.post.num_recent_enc_frames =
           (IF f.pre.num_recent_enc_frames >= 3 THEN 0 ELSE f.pre.num_recent_enc_frames) + 1
    /\ f.post.sum_recent_enc_size =
           (IF f.pre.num_recent_enc_frames >= 3 THEN 0 ELSE f.pre.sum_recent_enc_size)
               + f.post.last_enc_size
    /\ f.post.adjusted_fps_num_frames = f.pre.adjusted_fps_num_frames + 1

\* the frame has run end_frame exactly when encode_frame answered ENCODE_DONE
EndFrameIffDone ==
    op = "encode_frame" =>
        /\ (ret = VIDEO_ENCODER_FRAME_ENCODE_DONE) = (EndFrames # {})
        /\ \A f \in EndFrames : f.post = rate_control /\ f.post.last_enc_size > 0

\* C27: every frame for which encode_frame returns ENCODE_DONE sets
\* last_enc_size to its size and counts in ServerState; it is added to
\* BitRateInfo only when no evaluation is in progress or the evaluation's
\* reason is SIZE_CHANGE, and to the recent-size window and
\* adjusted_fps_num_frames only when no evaluation is in progress
C27_EndFrameCounts ==
    /\ EndFrameIffDone
    /\ \A f \in EndFrames :
          /\ f.post.server_state.num_frames_encoded =
                 f.pre.server_state.num_frames_encoded + 1
          /\ f.post.server_state.num_frames_dropped = f.pre.server_state.num_frames_dropped
          /\ IF \/ ~f.pre.during_quality_eval
                \/ f.pre.quality_eval_data.reason = MJPEG_QUALITY_EVAL_REASON_SIZE_CHANGE
             THEN CountedInBitRate(f)
             ELSE f.post.bit_rate_info = f.pre.bit_rate_info
          /\ IF ~f.pre.during_quality_eval
             THEN CountedInWindows(f)
             ELSE /\ f.post.num_recent_enc_frames = f.pre.num_recent_enc_frames
                  /\ f.post.sum_recent_enc_size = f.pre.sum_recent_enc_size
                  /\ f.post.adjusted_fps_num_frames = f.pre.adjusted_fps_num_frames

\* C27 as stated: every frame for which encode_frame returns ENCODE_DONE is
\* added to BitRateInfo, to the recent-size window and to
\* adjusted_fps_num_frames, whether an evaluation is in progress or not
C27_EndFrameCountsInEveryState ==
    /\ EndFrameIffDone
    /\ \A f \in EndFrames : CountedInBitRate(f) /\ CountedInWindows(f)

\* a frame was encoded during a SIZE_CHANGE evaluation: it counted in
\* BitRateInfo and not in the windows
C27_EncodedDuringSizeChangeEvaluation ==
    \E f \in EndFrames :
        /\ ret = VIDEO_ENCODER_FRAME_ENCODE_DONE
        /\ f.pre.during_quality_eval
        /\ f.pre.quality_eval_data.reason = MJPEG_QUALITY_EVAL_REASON_SIZE_CHANGE
        /\ f.pre.bit_rate_info.num_enc_frames > 0
        /\ f.pre.num_recent_enc_frames > 0
        /\ CountedInBitRate(f)
        /\ ~CountedInWindows(f)

\* the frame rate the average of the recent window allows, when Adjust-to-bit-rate
\* gets to compute it: not evaluating, a sample to hand and a full window;
\* -1 when it does not
NewFps(a) ==
    IF \/ a.pre.during_quality_eval
       \/ a.pre.last_enc_size = 0
       \/ a.pre.num_recent_enc_frames = 0
       \/ a.pre.num_recent_enc_frames < 3 /\ a.pre.num_recent_enc_frames < a.pre.fps
    THEN -1
    ELSE LET avg == a.pre.sum_recent_enc_size \div a.pre.num_recent_enc_frames
         IN IF avg = 0 THEN 25 ELSE a.pre.byte_rate \div avg

\* this run of Adjust-to-bit-rate started a SIZE_CHANGE evaluation of the
\* type: it is in progress, or it has committed in the same run
StartedSizeChange(a, type) ==
    /\ ~a.pre.during_quality_eval
    /\ \/ /\ a.post.during_quality_eval
          /\ a.post.quality_eval_data.type = type
          /\ a.post.quality_eval_data.reason = MJPEG_QUALITY_EVAL_REASON_SIZE_CHANGE
       \/ \E c \in Commits :
             /\ c.pre.quality_eval_data.type = type
             /\ c.pre.quality_eval_data.reason = MJPEG_QUALITY_EVAL_REASON_SIZE_CHANGE

\* quality_id = 6 and fps >= src_fps
CeilingReached(a) == a.pre.quality_id = 6 /\ a.pre.fps >= src_fps

\* C28: Adjust-to-bit-rate starts a SIZE_CHANGE UPGRADE evaluation only when
\* new_fps > fps and (fps < src_fps or quality_id < 6), and a SIZE_CHANGE
\* DOWNGRADE only when new_fps < fps and new_fps < src_fps; hence it starts no
\* SIZE_CHANGE evaluation when new_fps = fps and no UPGRADE at the ceiling,
\* where it still starts a DOWNGRADE
C28_SizeChangeStarts ==
    \A a \in Adjusts :
        /\ StartedSizeChange(a, MJPEG_QUALITY_EVAL_TYPE_UPGRADE)
              => /\ NewFps(a) > a.pre.fps
                 /\ (a.pre.fps < src_fps \/ a.pre.quality_id < 6)
                 /\ ~CeilingReached(a)
        /\ StartedSizeChange(a, MJPEG_QUALITY_EVAL_TYPE_DOWNGRADE)
              => /\ NewFps(a) >= 0
                 /\ NewFps(a) < a.pre.fps
                 /\ NewFps(a) < src_fps

\* C28 as stated: at the ceiling, or when new_fps = fps, Adjust-to-bit-rate
\* starts no SIZE_CHANGE evaluation, neither UPGRADE nor DOWNGRADE
C28_NoEvaluationAtTheCeiling ==
    \A a \in Adjusts :
        (CeilingReached(a) \/ NewFps(a) = a.pre.fps)
            => /\ ~StartedSizeChange(a, MJPEG_QUALITY_EVAL_TYPE_UPGRADE)
               /\ ~StartedSizeChange(a, MJPEG_QUALITY_EVAL_TYPE_DOWNGRADE)

\* at the ceiling, with the source at 25 fps, larger frames made
\* Adjust-to-bit-rate start a SIZE_CHANGE DOWNGRADE evaluation
C28_DowngradeStartedAtTheCeiling ==
    \E a \in Adjusts :
        /\ CeilingReached(a)
        /\ a.pre.fps = 25
        /\ StartedSizeChange(a, MJPEG_QUALITY_EVAL_TYPE_DOWNGRADE)
        /\ NewFps(a) >= 0
        /\ NewFps(a) < a.pre.fps

\* the quality a commit is to choose: max(quality_id, max_sampled_fps_quality_id)
\* when some sample gave a non-zero fps, else quality_id
FinalQualityId(c) ==
    IF c.pre.quality_eval_data.max_sampled_fps # 0
    THEN MAX(c.pre.quality_id, c.pre.quality_eval_data.max_sampled_fps_quality_id)
    ELSE c.pre.quality_id

\* C29: every evaluator commit commits the quality max(quality_id at the
\* commit point, max_sampled_fps_quality_id) when some sample gave a non-zero
\* fps, else quality_id; that quality has a recorded non-zero sample, and after
\* the commit base_enc_size = sum_recent_enc_size = that sample and
\* num_recent_enc_frames = 1
C29_CommitAtSampledQuality ==
    \A c \in Commits :
        LET sample == c.pre.quality_eval_data.encoded_size_by_quality[FinalQualityId(c)]
        IN /\ c.pre.during_quality_eval
           /\ c.post.quality_id = FinalQualityId(c)
           /\ sample # 0
           /\ c.post.base_enc_size = sample
           /\ c.post.sum_recent_enc_size = sample
           /\ c.post.num_recent_enc_frames = 1
           /\ ~c.post.during_quality_eval

\* a commit chose the quality of the best sampled frame rate, above the
\* quality_id the walk had reached, and took that quality's sample, which
\* differs from the sample at quality_id
C29_CommittedAboveTheWalk ==
    \E c \in Commits :
        LET quality_eval == c.pre.quality_eval_data
        IN /\ quality_eval.max_sampled_fps # 0
           /\ quality_eval.max_sampled_fps_quality_id > c.pre.quality_id
           /\ c.post.quality_id = quality_eval.max_sampled_fps_quality_id
           /\ c.post.base_enc_size
                  # quality_eval.encoded_size_by_quality[c.pre.quality_id]
           /\ c.post.base_enc_size > 0
           /\ c.post.num_recent_enc_frames = 1

\* C30: an encode_frame call that returns DROP leaves quality_id, fps,
\* byte_rate, during_quality_eval and the evaluation data, BitRateInfo
\* (last_frame_time included), ServerState, last_enc_size and the recent-size
\* window unchanged; only adjusted_fps, adjusted_fps_start_time and
\* adjusted_fps_num_frames may change
C30_DropChangesOnlyPacing ==
    [][(op' = "encode_frame" /\ ret' = VIDEO_ENCODER_FRAME_DROP)
          => /\ rate_control' =
                    [rate_control EXCEPT
                        !.adjusted_fps = rate_control'.adjusted_fps,
                        !.adjusted_fps_start_time = rate_control'.adjusted_fps_start_time,
                        !.adjusted_fps_num_frames = rate_control'.adjusted_fps_num_frames]
             /\ delays' = <<>>]_vars

\* a frame was dropped by a call whose mjpeg_encoder_adjust_fps restarted the
\* smoothing window: three frames have been counted since the last commit, so
\* adjusted_fps_start_time was set before this call, and it is now the time of
\* the dropped frame
C30_DroppedFrameRestartedWindow ==
    /\ op = "encode_frame"
    /\ ret = VIDEO_ENCODER_FRAME_DROP
    /\ ~rate_control.during_quality_eval
    /\ rate_control.num_recent_enc_frames >= 3
    /\ rate_control.adjusted_fps_start_time = now
    /\ rate_control.adjusted_fps_num_frames = 0
    /\ rate_control.bit_rate_info.last_frame_time < now
    /\ gate.adjusted_fps = rate_control.adjusted_fps

\* a rate-change evaluation, the SET evaluation of construction included
RateChangeEvaluation(rc) ==
    /\ rc.during_quality_eval
    /\ rc.quality_eval_data.reason = MJPEG_QUALITY_EVAL_REASON_RATE_CHANGE

\* C31: while during_quality_eval is true with reason RATE_CHANGE,
\* BitRateInfo.change_start_time, change_start_mm_time, last_frame_time,
\* num_enc_frames and sum_enc_size are all 0, and no encode_frame call returns
\* DROP (a call that returns DROP leaves during_quality_eval and reason as it
\* found them, so the evaluation was in progress when the frame arrived)
C31_RateChangeEvaluationCountsNothing ==
    RateChangeEvaluation(rate_control)
        => /\ rate_control.bit_rate_info.change_start_time = 0
           /\ rate_control.bit_rate_info.change_start_mm_time = 0
           /\ rate_control.bit_rate_info.last_frame_time = 0
           /\ rate_control.bit_rate_info.num_enc_frames = 0
           /\ rate_control.bit_rate_info.sum_enc_size = 0
           /\ ~(op = "encode_frame" /\ ret = VIDEO_ENCODER_FRAME_DROP)

\* a frame was encoded during the DOWNGRADE evaluation that a bit-rate decrease
\* began after frames had been counted: the admission gate measured its
\* interval from time 0 and BitRateInfo did not count it
C31_EncodedDuringRateDowngrade ==
    /\ op = "encode_frame"
    /\ ret = VIDEO_ENCODER_FRAME_ENCODE_DONE
    /\ RateChangeEvaluation(rate_control)
    /\ rate_control.quality_eval_data.type = MJPEG_QUALITY_EVAL_TYPE_DOWNGRADE
    /\ rate_control.server_state.num_frames_encoded > 0
    /\ gate.interval = now
    /\ rate_control.bit_rate_info.num_enc_frames = 0
    /\ rate_control.bit_rate_info.last_frame_time = 0

\* the call that led to this state ran a Decrease-bit-rate that reduced byte_rate
ByteRateLowered == \E d \in Decreases : d.post.byte_rate < d.pre.byte_rate

\* a step taken while the evaluation begun by a byte_rate reduction is in
\* progress: a client report changes nothing, and the evaluation is only left
\* through a frame submission that commits it
StepDuringRateDowngrade ==
    RateDowngradeInProgress
        => /\ op' = "client_stream_report"
                 => /\ rate_control' = rate_control
                    /\ delays' = <<>>
                    /\ ~ByteRateLowered'
           /\ ~RateDowngradeInProgress'
                 => /\ op' = "encode_frame"
                    /\ ~rate_control'.during_quality_eval
                    /\ rate_control'.base_enc_size > 0
                    /\ rate_control'.byte_rate = rate_control.byte_rate

\* C32: a Decrease-bit-rate that reduced byte_rate leaves the DOWNGRADE +
\* RATE_CHANGE evaluation in progress; from then on no client_stream_report
\* changes byte_rate or any other state until a frame submission has committed
\* the evaluation, so two client reports with no frame submitted between them
\* never both lower byte_rate
C32_NoReportActsBeforeTheCommit ==
    /\ [](ByteRateLowered => RateDowngradeInProgress)
    /\ [][StepDuringRateDowngrade]_vars
    /\ [][(op = "client_stream_report" /\ ByteRateLowered
             /\ op' = "client_stream_report")
              => rate_control'.byte_rate = rate_control.byte_rate]_vars

\* a client report arrived right after the client report whose Decrease-bit-rate
\* had reduced byte_rate, and was skipped: byte_rate is where the first report
\* left it, below the starting rate, and the evaluation is still in progress
C32_SecondReportSkipped ==
    /\ op = "client_stream_report"
    /\ ~ByteRateLowered
    /\ RateDowngradeInProgress
    /\ rate_control.byte_rate < starting_bit_rate \div 8
    /\ rate_control.bit_rate_info = ZeroBitRateInfo
    /\ rate_control.client_state = ZeroClientState

\* the SET evaluation that construction began
InitialEvaluationInProgress ==
    /\ rate_control.during_quality_eval
    /\ rate_control.quality_eval_data.type = MJPEG_QUALITY_EVAL_TYPE_SET

\* C33: while the SET evaluation created at construction is in progress, a
\* client_stream_report, whatever its fields, changes nothing of the rate
\* control but the ClientState running maxima, which never fall, and runs no
\* Decrease-bit-rate, Increase-bit-rate or Quality-Eval-Stop: byte_rate,
\* quality_id, fps and BitRateInfo stay and the evaluation is not cancelled
C33_ReportsLeaveInitialEvaluation ==
    [][(InitialEvaluationInProgress /\ op' = "client_stream_report")
          => /\ rate_control' =
                    [rate_control EXCEPT !.client_state = rate_control'.client_state]
             /\ rate_control'.client_state.max_video_latency
                    >= rate_control.client_state.max_video_latency
             /\ rate_control'.client_state.max_audio_latency
                    >= rate_control.client_state.max_audio_latency
             /\ \A i \in 1 .. Len(calls') :
                    calls'[i].fn \notin {"decrease_bit_rate", "increase_bit_rate",
                                         "quality_eval_stop"}]_vars

\* after the initial SET evaluation had walked away from quality_id 3, a
\* report with a small positive delay raised the ClientState maxima, had the
\* host given a playback delay and reached Handle-Negative, which left the
\* encoder as it found it
C33_NegativeReportDuringInitialEvaluation ==
    /\ op = "client_stream_report"
    /\ InitialEvaluationInProgress
    /\ rate_control.quality_id # 3
    /\ rate_control.client_state.max_video_latency > 0
    /\ delays # <<>>
    /\ \E h \in NegativeReports : h.same

\* C34: max_video_latency >= 0 in every state, and a client report with
\* end_frame_delay < 0 that is not skipped during a DOWNGRADE + RATE_CHANGE
\* evaluation runs Handle-Negative and not Handle-Positive, also when
\* end_frame_delay is above the -15 ms threshold and num_drops is 0
C34_NegativeDelayIsNegativeReport ==
    /\ rate_control.client_state.max_video_latency >= 0
    /\ \A r \in Reports :
           /\ r.pre.client_state.max_video_latency >= 0
           /\ (r.end_frame_delay < 0 /\ ~DuringRateDowngradeEvaluation(r.pre))
                 => /\ NegativeReports # {}
                    /\ PositiveReports = {}

\* a report with no drops and a delay of -10 ms, above the threshold, arrived
\* after earlier reports had raised max_video_latency, and Handle-Negative
\* lowered byte_rate and zeroed max_video_latency
C34_SlightlyNegativeDelayDecreased ==
    \E r \in Reports :
        /\ r.end_frame_delay < 0
        /\ r.end_frame_delay >= MJPEG_VIDEO_DELAY_TH
        /\ r.pre.client_state.max_video_latency > 0
        /\ \E h \in NegativeReports : ~h.same
        /\ rate_control.byte_rate < r.pre.byte_rate
        /\ rate_control.client_state.max_video_latency = 0

\* neither num_enc_frames > 3 nor num_enc_frames > fps
TooFewFramesMeasured(rc) ==
    /\ rc.bit_rate_info.num_enc_frames <= 3
    /\ rc.bit_rate_info.num_enc_frames <= rc.fps

\* C35: a call of Increase-bit-rate with neither num_enc_frames > 3 nor
\* num_enc_frames > fps changes nothing: byte_rate, BitRateInfo (was_upgraded
\* included), quality_id and fps stay, an evaluation in progress is not
\* cancelled, and Quality-Eval-Stop is not run
C35_IncreaseWithTooFewFramesIsNoOp ==
    \A i \in 1 .. Len(calls) :
        (calls[i].fn = "increase_bit_rate" /\ TooFewFramesMeasured(calls[i].pre))
            => /\ calls[i].post = calls[i].pre
               /\ i > 1 => calls[i - 1].fn # "quality_eval_stop"

\* Increase-bit-rate was called with too few frames measured while an
\* evaluation was in progress
C35_IncreaseDuringEvaluationIgnored ==
    \E c \in Increases :
        /\ TooFewFramesMeasured(c.pre)
        /\ c.pre.during_quality_eval
        /\ c.pre.bit_rate_info.num_enc_frames > 0
        /\ ~c.pre.bit_rate_info.was_upgraded
        /\ rate_control.during_quality_eval

\* C36: num_recent_enc_frames <= 3 in every state: outside an evaluation
\* end_frame restarts the window before it adds the frame once the window holds
\* 3 frames, an evaluator commit leaves exactly one frame in it, and the
\* Reset-Quality of Quality-Eval-Stop empties it
C36_RecentWindowAtMostThree ==
    /\ rate_control.num_recent_enc_frames <= 3
    /\ rate_control.num_recent_enc_frames >= 0
    /\ \A f \in EndFrames :
           /\ f.pre.num_recent_enc_frames <= 3
           /\ ~f.pre.during_quality_eval
                 => IF f.pre.num_recent_enc_frames >= 3
                    THEN /\ f.post.num_recent_enc_frames = 1
                         /\ f.post.sum_recent_enc_size = f.post.last_enc_size
                    ELSE /\ f.post.num_recent_enc_frames
                                = f.pre.num_recent_enc_frames + 1
                         /\ f.post.sum_recent_enc_size
                                = f.pre.sum_recent_enc_size + f.post.last_enc_size
    /\ \A c \in Commits : c.post.num_recent_enc_frames = 1
    /\ \A s \in Stops :
           s.pre.during_quality_eval
               => /\ s.post.num_recent_enc_frames = 0
                  /\ s.post.sum_recent_enc_size = 0

\* a frame was encoded when the window already held 3 frames: the window was
\* restarted and holds that frame alone
C36_WindowRestarted ==
    \E f \in EndFrames :
        /\ ~f.pre.during_quality_eval
        /\ f.pre.num_recent_enc_frames = 3
        /\ f.post.num_recent_enc_frames = 1
        /\ f.post.sum_recent_enc_size = f.post.last_enc_size

\* C37: in every state with BitRateInfo.num_enc_frames >= 2,
\* last_frame_time > change_start_time; so whenever Decrease-bit-rate or
\* Increase-bit-rate measures the bit rate (num_enc_frames > 3 or > fps) the
\* duration last_frame_time - change_start_time it divides by is positive
C37_MeasuredDurationPositive ==
    /\ rate_control.bit_rate_info.num_enc_frames >= 2
          => rate_control.bit_rate_info.last_frame_time
                 > rate_control.bit_rate_info.change_start_time
    /\ \A c \in Decreases \cup Increases :
           /\ c.pre.bit_rate_info.num_enc_frames >= 2
                 => MeasuredDuration(c.pre) > 0
           /\ EnoughFramesToMeasure(c.pre)
                 => /\ c.pre.bit_rate_info.num_enc_frames >= 2
                    /\ MeasuredDuration(c.pre) > 0

\* Decrease-bit-rate measured the bit rate over exactly two frames, more than
\* fps, and lowered byte_rate
C37_MeasuredOverTwoFrames ==
    \E d \in Decreases :
        /\ d.pre.bit_rate_info.num_enc_frames = 2
        /\ EnoughFramesToMeasure(d.pre)
        /\ MeasuredDuration(d.pre) > 0
        /\ d.post.byte_rate < d.pre.byte_rate

\* Decrease-bit-rate measured the bit rate over frames that came 40 ms apart,
\* less than a second in all, and lowered byte_rate
C37_MeasuredOverShortGaps ==
    \E d \in Decreases :
        /\ EnoughFramesToMeasure(d.pre)
        /\ MeasuredDuration(d.pre) > 0
        /\ MeasuredDuration(d.pre) < MSEC_PER_SEC
        /\ d.post.byte_rate < d.pre.byte_rate

====
